---- MODULE Spec2Model ----
(***************************************************************************)
(* Neura-X Guardian Angel backend: the provider chain (AIService), the     *)
(* storage gateway (JSONStorage over MongoStorage and the flat files), the *)
(* booking and voice REST routes and the Socket.IO dispatcher              *)
(* (SocketHandler), as state machines translated from the JavaScript.      *)
(***************************************************************************)
EXTENDS Naturals, Integers, Sequences, FiniteSets, TLC

VARIABLES
  isDeepSeekAvailable,  \* AIService.isDeepSeekAvailable
  isOpenAIAvailable,    \* AIService.isOpenAIAvailable
  aiCall,               \* the last direct processMessage call: its environment and outcome
  isConnected,          \* MongoStorage.isConnected, the cached health flag
  mongoListening,       \* the mongoose connection listeners are registered
  mongoBookings,        \* the Booking collection of the durable backend
  bookingsFile,         \* data/bookings.json, the flat-file backend
  acked,                \* history: <<bookingId, userId>> of every save that reported success
  storeCall,            \* the last gateway call or booking route request, with its outcome
  connStatus,           \* per socket: "new" (not connected yet), "open", "closed"
  activeUsers,          \* SocketHandler.activeUsers: socket.id -> record, Null when absent
  rooms,                \* the Socket.IO rooms each socket has joined
  voiceSessions,        \* SocketHandler.voiceSessions: context key -> turns
  restVoiceSessions,    \* the voiceSessions map of the voice routes
  pending,              \* the handlers suspended at their await
  now,                  \* the clock that new Date() reads
  outbox,               \* the event last handled and the packets it handed to the transport
  conversations,        \* the conversations map of the chat routes: context key -> messages
  appended              \* history: per store and key, every message pushed, in order

aiVars == <<isDeepSeekAvailable, isOpenAIAvailable, aiCall>>
storeVars == <<isConnected, mongoListening, mongoBookings, bookingsFile, acked, storeCall>>
sockVars == <<connStatus, activeUsers, rooms, voiceSessions, restVoiceSessions, pending, now, outbox>>
chatVars == <<conversations, appended>>

NoCall == [kind |-> "none"]

(***************************************************************************)
(* AIService (src/utils/aiService.js)                                      *)
(***************************************************************************)

\* What the remote ends can do in one call.  An error is the sequence of the
\* words of its message, so that error.message.includes('DeepSeek') is decided
\* by the message and not by the tier that threw.
ErrMentionsDeepSeek == <<"DeepSeek", "API", "error">>
ErrConnection == <<"Connection", "error">>
ErrRequestFailed == <<"Request", "failed">>

DeepSeekOutcomes == {"ok", "throwNamed", "throwPlain"}
OpenAIOutcomes == {"ok", "throw"}
\* The instant-answer lookup answers with one of its three fields, or with none
\* of them (and then the scrape runs, with its own three outcomes), or throws.
WebOutcomes == {"AbstractText", "Answer", "Definition",
                "scrapeSnippets", "scrapeNoSnippets", "scrapeThrow", "throw"}

AIEnvs == [ds : DeepSeekOutcomes, oa : OpenAIOutcomes, web1 : WebOutcomes, web2 : WebOutcomes]

Returned(response, source, calls) ==
  [kind |-> "return", response |-> response, source |-> source, calls |-> calls]
Thrown(error, calls) ==
  [kind |-> "throw", error |-> error, calls |-> calls]

Includes(message, word) == \E i \in 1..Len(message) : message[i] = word

ApologyText == "I'm having trouble processing your request right now. Please try again later."

callDeepSeek(o) ==
  IF o = "ok" THEN Returned("deepseek reply", "deepseek", <<"deepseek">>)
  ELSE IF o = "throwNamed" THEN Thrown(ErrMentionsDeepSeek, <<"deepseek">>)
  ELSE Thrown(ErrConnection, <<"deepseek">>)

callOpenAI(o) ==
  IF o = "ok" THEN Returned("openai reply", "openai", <<"openai">>)
  ELSE Thrown(ErrConnection, <<"openai">>)

\* The try of scrapeSearchResults catches everything and answers with a text.
scrapeSearchResults(o) ==
  IF o = "scrapeSnippets" THEN "Based on web search: snippets"
  ELSE IF o = "scrapeNoSnippets"
    THEN "I found some information but couldn't extract clear details. Please try a more specific question."
  ELSE "I'm having trouble accessing web information right now."

\* webSearch: the catch logs and rethrows.
webSearch(o) ==
  IF o = "throw" THEN Thrown(ErrRequestFailed, <<"web">>)
  ELSE LET result == IF o \in {"AbstractText", "Answer", "Definition"} THEN o
                     ELSE scrapeSearchResults(o)
       IN Returned(IF result # "" THEN result
                   ELSE "I couldn't find specific information about that. Could you please rephrase your question?",
                   "web_search", <<"web">>)

\* The try block of processMessage: exactly one tier is called.
processMessageTry(ds, oa, env) ==
  IF ds THEN callDeepSeek(env.ds)
  ELSE IF oa THEN callOpenAI(env.oa)
  ELSE webSearch(env.web1)

\* The condition of the catch block for a second chance with OpenAI.
shouldRetryOpenAI(oa, error) == oa /\ Includes(error, "DeepSeek")

processMessageFinalUnguarded(w, calls) ==
  IF w.kind = "return" THEN Returned(w.response, w.source, calls \o w.calls)
  ELSE Thrown(w.error, calls \o w.calls)

\* The last try of the catch block: the web result, or the fixed apology.
processMessageFinal(w, calls) ==
  IF w.kind = "return" THEN Returned(w.response, w.source, calls \o w.calls)
  ELSE Returned(ApologyText, "error", calls \o w.calls)

processMessage(ds, oa, env) ==
  LET t == processMessageTry(ds, oa, env)
      \* the web outcome of the catch block is that of a second request when the
      \* try block already made one
      w == IF t.calls = <<"web">> THEN webSearch(env.web2) ELSE webSearch(env.web1)
  IN IF t.kind = "return" THEN t
     ELSE IF shouldRetryOpenAI(oa, t.error)
       THEN LET o == callOpenAI(env.oa)
            IN IF o.kind = "return" THEN Returned(o.response, o.source, t.calls \o o.calls)
               ELSE processMessageFinal(w, t.calls \o o.calls)
       ELSE processMessageFinal(w, t.calls)

\* new AIService(): the flags are fixed by the environment at construction.
AIInit ==
  /\ isDeepSeekAvailable \in BOOLEAN
  /\ isOpenAIAvailable \in BOOLEAN
  /\ aiCall = NoCall

\* One direct call of processMessage (POST chat, and every caller below).
ProcessMessageCall ==
  \E env \in AIEnvs :
    /\ aiCall' = [kind |-> "call", env |-> env,
                  out |-> processMessage(isDeepSeekAvailable, isOpenAIAvailable, env)]
    /\ UNCHANGED <<isDeepSeekAvailable, isOpenAIAvailable>>
    /\ UNCHANGED <<storeVars, sockVars, chatVars>>

\* streamResponse.  The create call of the client answers with a stream or
\* throws; the stream yields `chunks` (the delta contents, '' for a chunk
\* without content) and then ends, or throws when `fail`.
MaxStreamLen == 2
ChunkContents == {"", "tok"}
ChunkSeqs == UNION {[1..n -> ChunkContents] : n \in 0..MaxStreamLen}
StreamEnvs == [create : {"ok", "throw"}, chunks : ChunkSeqs, fail : BOOLEAN, web : WebOutcomes]

StreamApology == "Sorry, I encountered an error while processing your request."

\* One invocation callback(content, isComplete).
Callback(content, isComplete) == [content |-> content, isComplete |-> isComplete]

\* for await (const chunk of stream): if (content) callback(content, false)
Partials(chunks) ==
  LET contents == SelectSeq(chunks, LAMBDA c : c # "")
  IN [i \in 1..Len(contents) |-> Callback(contents[i], FALSE)]

\* A streamResponse whose catch block does not call back.
streamResponseUncaught(ds, oa, env) ==
  IF ~ds /\ ~oa
  THEN LET w == webSearch(env.web)
       IN IF w.kind = "return" THEN <<Callback(w.response, TRUE)>> ELSE <<>>
  ELSE IF env.create = "throw" THEN <<>>
  ELSE Partials(env.chunks) \o (IF env.fail THEN <<>> ELSE <<Callback("", TRUE)>>)

\* The callbacks one streamResponse makes, in order.
streamResponse(ds, oa, env) ==
  IF ~ds /\ ~oa
  THEN LET w == webSearch(env.web)
       IN IF w.kind = "return" THEN <<Callback(w.response, TRUE)>>
          ELSE <<Callback(StreamApology, TRUE)>>
  ELSE IF env.create = "throw" THEN <<Callback(StreamApology, TRUE)>>
  ELSE Partials(env.chunks)
       \o <<Callback(IF env.fail THEN StreamApology ELSE "", TRUE)>>

\* One direct call of streamResponse with a callback that records.
StreamResponseCall ==
  \E env \in StreamEnvs :
    /\ aiCall' = [kind |-> "stream", env |-> env,
                  out |-> streamResponse(isDeepSeekAvailable, isOpenAIAvailable, env)]
    /\ UNCHANGED <<isDeepSeekAvailable, isOpenAIAvailable>>
    /\ UNCHANGED <<storeVars, sockVars, chatVars>>

(***************************************************************************)
(* BookingModel (src/models/BookingModel.js)                               *)
(***************************************************************************)

Users == {"u1", "u2"}
BookingIds == {"NX1", "NX2"}
MaxBookings == 2

Null == [null |-> TRUE]

\* A time field that has not been set.
NoStamp == -1

\* String.prototype.trim on the strings the requests use.
Trim(s) == IF s = " Delhi " THEN "Delhi" ELSE s

\* validateDate: an unparsable date and a date before today throw.
DateOk(d) == d = "2099-07-01"

getPassengerType(age) ==
  IF age < 2 THEN "infant" ELSE IF age < 12 THEN "child" ELSE IF age >= 60 THEN "senior" ELSE "adult"

PassengersOk(ps) == Len(ps) > 0 /\ \A i \in 1..Len(ps) : ps[i].name # "" /\ ps[i].age # 0

validatePassengers(ps) ==
  [i \in 1..Len(ps) |-> [name |-> Trim(ps[i].name), age |-> ps[i].age,
                         type |-> getPassengerType(ps[i].age)]]

TrainClasses == {"sleeper", "3ac", "2ac", "1ac", "cc", "ec"}
FlightClasses == {"economy", "premium-economy", "business", "first"}

\* Requests: an absent field is "" (and <<>> for the passengers).
BusRequest ==
  [type |-> "bus", from |-> " Delhi ", to |-> "Mumbai", date |-> "2099-07-01", time |-> "10:00",
   departureDate |-> "", passengers |-> <<[name |-> "Test User", age |-> 30]>>,
   class |-> "", seatType |-> ""]
FlightRequest ==
  [type |-> "flight", from |-> "Mumbai", to |-> "Delhi", date |-> "", time |-> "",
   departureDate |-> "2099-07-01", passengers |-> <<[name |-> "Test User", age |-> 65]>>,
   class |-> "economy", seatType |-> ""]
BusNoTimeRequest == [BusRequest EXCEPT !.time = ""]
BookingRequests == {BusRequest, FlightRequest, BusNoTimeRequest}

\* The valid requests that simulations are asked for.
SimulationRequests == {BusRequest, FlightRequest, [BusRequest EXCEPT !.from = "Delhi"]}

\* checkRequiredFields, validateDate, validatePassengers and the class checks of
\* the three validate*Booking methods: TRUE when none of them throws.
validateBookingOk(d) ==
  /\ d.type \in {"bus", "train", "flight"}
  /\ d.from # "" /\ d.to # "" /\ PassengersOk(d.passengers)
  /\ d.type \in {"bus", "train"} => d.date # "" /\ d.time # "" /\ DateOk(d.date)
  /\ d.type = "flight" => d.departureDate # "" /\ DateOk(d.departureDate)
  /\ d.type = "train" => d.class \in TrainClasses
  /\ d.type = "flight" => d.class \in FlightClasses

\* The validated booking that validateBooking returns.
validateBooking(d) ==
  [type |-> d.type, from |-> Trim(d.from), to |-> Trim(d.to),
   date |-> d.date, time |-> d.time, departureDate |-> d.departureDate,
   passengers |-> validatePassengers(d.passengers),
   class |-> d.class,
   seatType |-> IF d.type = "bus" /\ d.seatType = "" THEN "standard" ELSE d.seatType]

\* String.prototype.toLowerCase on the strings the requests use.
toLowerCase(s) ==
  CASE s = "Delhi" -> "delhi"
    [] s = " Delhi " -> " delhi "
    [] s = "Mumbai" -> "mumbai"
    [] s = "Pune" -> "pune"
    [] OTHER -> s

\* Math.round of the fraction n / d, for n >= 0 and d > 0.
Round(n, d) == (2 * n + d) \div (2 * d)

\* getDistanceMultiplier, in tenths: the table is read with the untrimmed,
\* lower-cased names, and a pair it does not hold counts 1.0.
getDistanceMultiplier(from, to) ==
  LET key == toLowerCase(from) \o "-" \o toLowerCase(to)
  IN CASE key \in {"delhi-mumbai", "mumbai-delhi"} -> 15
       [] key \in {"delhi-bangalore", "bangalore-delhi"} -> 20
       [] key \in {"mumbai-bangalore", "bangalore-mumbai"} -> 12
       [] key \in {"delhi-kolkata", "kolkata-delhi"} -> 18
       [] key \in {"mumbai-kolkata", "kolkata-mumbai"} -> 22
       [] key \in {"bangalore-kolkata", "kolkata-bangalore"} -> 25
       [] OTHER -> 10

calculateBusPrice(d) ==
  Round(500 * getDistanceMultiplier(d.from, d.to) * Len(d.passengers)
          * (IF d.seatType = "premium" THEN 15 ELSE 10), 100)

calculateTrainPrice(d) ==
  LET basePrice == CASE d.class = "sleeper" -> 300
                     [] d.class = "3ac" -> 800
                     [] d.class = "2ac" -> 1200
                     [] d.class = "1ac" -> 2000
                     [] d.class = "cc" -> 600
                     [] d.class = "ec" -> 400
                     [] OTHER -> 500
  IN Round(basePrice * getDistanceMultiplier(d.from, d.to) * Len(d.passengers), 10)

\* The requests carry no returnDate, so the trip multiplier is 1.
calculateFlightPrice(d) ==
  LET basePrice == CASE d.class = "economy" -> 5000
                     [] d.class = "premium-economy" -> 8000
                     [] d.class = "business" -> 15000
                     [] d.class = "first" -> 25000
                     [] OTHER -> 5000
  IN Round(basePrice * getDistanceMultiplier(d.from, d.to) * Len(d.passengers), 10)

\* The estimatedPrice of the validated booking.
estimatedPrice(d) ==
  CASE d.type = "bus" -> calculateBusPrice(d)
    [] d.type = "train" -> calculateTrainPrice(d)
    [] d.type = "flight" -> calculateFlightPrice(d)

\* 0.8 + Math.random() * 0.4, in hundredths: from 0.80 up to, not reaching, 1.20.
PriceVariations == {80, 100, 119}

\* One option of a simulation: OPT<i> at the base price varied by one draw.
Option(i, basePrice, variation) ==
  [optionId |-> i, estimatedPrice |-> Round(basePrice * variation, 100)]

\* Array.prototype.sort((a, b) => a.estimatedPrice - b.estimatedPrice): stable,
\* ascending by price.
RECURSIVE InsertByPrice(_, _)
InsertByPrice(o, sorted) ==
  IF sorted = <<>> THEN <<o>>
  ELSE IF o.estimatedPrice < sorted[1].estimatedPrice THEN <<o>> \o sorted
  ELSE <<sorted[1]>> \o InsertByPrice(o, Tail(sorted))

RECURSIVE SortByPrice(_)
SortByPrice(options) ==
  IF options = <<>> THEN <<>>
  ELSE InsertByPrice(options[Len(options)], SortByPrice(SubSeq(options, 1, Len(options) - 1)))

\* One direct call of validateBooking; it returns or throws.
ValidateRequests ==
  [type : {"bus", "train", "flight", "taxi"}, from : {" Delhi "}, to : {"Mumbai"},
   date : {"", "2099-07-01"}, time : {"", "10:00"}, departureDate : {"", "2099-07-01"},
   passengers : {<<[name |-> "Test User", age |-> 30]>>},
   class : {"", "sleeper", "economy"}, seatType : {"", "window"}]

ValidateBookingCall ==
  \E d \in ValidateRequests :
    /\ storeCall' = [op |-> "validateBooking", arg |-> d, ok |-> validateBookingOk(d)]
    /\ UNCHANGED <<isConnected, mongoListening, mongoBookings, bookingsFile, acked>>
    /\ UNCHANGED <<aiVars, sockVars, chatVars>>

\* generateBookingConfirmation: the identifier is six digits of the clock and four
\* random characters, so it is any identifier, a used one included.
generateBookingConfirmation(v, userId, bookingId) ==
  [bookingId |-> bookingId, userId |-> userId, type |-> v.type, from |-> v.from, to |-> v.to,
   date |-> v.date, time |-> v.time, departureDate |-> v.departureDate,
   passengers |-> v.passengers, class |-> v.class, seatType |-> v.seatType,
   status |-> "confirmed",
   cancellationReason |-> "", cancelledAt |-> NoStamp, updatedAt |-> NoStamp]

\* An `updates` object: the fields it does not have are "" (<<>> for the
\* passengers, NoStamp for the times).
NoUpdate ==
  [bookingId |-> "", userId |-> "", type |-> "", from |-> "", to |-> "", date |-> "",
   time |-> "", departureDate |-> "", passengers |-> <<>>, class |-> "", seatType |-> "",
   status |-> "", cancellationReason |-> "", cancelledAt |-> NoStamp, updatedAt |-> NoStamp]

\* { ...base, ...over }: every field that `over` has replaces the one of `base`.
Spread(base, over) ==
  LET S(f) == IF over[f] = "" THEN base[f] ELSE over[f]
      T(f) == IF over[f] = NoStamp THEN base[f] ELSE over[f]
  IN [bookingId |-> S("bookingId"), userId |-> S("userId"), type |-> S("type"),
      from |-> S("from"), to |-> S("to"), date |-> S("date"), time |-> S("time"),
      departureDate |-> S("departureDate"),
      passengers |-> IF over.passengers = <<>> THEN base.passengers ELSE over.passengers,
      class |-> S("class"), seatType |-> S("seatType"), status |-> S("status"),
      cancellationReason |-> S("cancellationReason"),
      cancelledAt |-> T("cancelledAt"), updatedAt |-> T("updatedAt")]

\* The validated booking as the fields it contributes to an update.
ValidatedFields(v) ==
  [NoUpdate EXCEPT !.type = v.type, !.from = v.from, !.to = v.to, !.date = v.date,
                   !.time = v.time, !.departureDate = v.departureDate,
                   !.passengers = v.passengers, !.class = v.class, !.seatType = v.seatType]

(***************************************************************************)
(* MongoStorage (src/utils/mongoStorage.js)                                *)
(***************************************************************************)

HasId(bookings, id) == \E i \in 1..Len(bookings) : bookings[i].bookingId = id

FirstWithId(bookings, id) ==
  IF HasId(bookings, id)
  THEN bookings[CHOOSE i \in 1..Len(bookings) :
                  /\ bookings[i].bookingId = id
                  /\ \A j \in 1..(i - 1) : bookings[j].bookingId # id]
  ELSE Null

Reverse(s) == [i \in 1..Len(s) |-> s[Len(s) + 1 - i]]

StoreReturn(val, db, file) == [kind |-> "return", val |-> val, db |-> db, file |-> file]

\* MongoStorage.saveBooking: the insert fails when the flag is down, when the
\* driver fails and on the unique index of bookingId; the catch returns null.
MongoStorage_saveBooking(connected, db, file, booking, mongoOk) ==
  IF connected /\ mongoOk /\ ~HasId(db, booking.bookingId)
  THEN StoreReturn(booking, Append(db, booking), file)
  ELSE StoreReturn(Null, db, file)

IndexOfId(bookings, id) ==
  CHOOSE i \in 1..Len(bookings) :
    /\ bookings[i].bookingId = id
    /\ \A j \in 1..(i - 1) : bookings[j].bookingId # id

\* { ...booking, ...updates, updatedAt: new Date() }
Merge(booking, updates, t) == [Spread(booking, updates) EXCEPT !.updatedAt = t]

\* MongoStorage.updateBooking: findOneAndUpdate({bookingId}, {...updates,
\* updatedAt}); null when the flag is down, when no document has the
\* identifier, and (from the catch) when the driver or the unique index of
\* bookingId fails.
MongoStorage_updateBooking(connected, db, file, bookingId, updates, mongoOk, t) ==
  IF connected /\ mongoOk /\ HasId(db, bookingId)
  THEN LET i == IndexOfId(db, bookingId)
           updated == Merge(db[i], updates, t)
       IN IF updated.bookingId # bookingId /\ HasId(db, updated.bookingId)
          THEN StoreReturn(Null, db, file)
          ELSE StoreReturn(updated, [db EXCEPT ![i] = updated], file)
  ELSE StoreReturn(Null, db, file)

\* MongoStorage.getUserBookings: newest first; the catch returns [].
MongoStorage_getUserBookings(connected, db, file, userId, mongoOk) ==
  IF connected /\ mongoOk
  THEN StoreReturn(Reverse(SelectSeq(db, LAMBDA b : b.userId = userId)), db, file)
  ELSE StoreReturn(<<>>, db, file)

(***************************************************************************)
(* JSONStorage (src/utils/jsonStorage.js)                                  *)
(***************************************************************************)

\* readFile returns null on any error, and every caller reads `|| []`.
readFileOrEmpty(file, readOk) == IF readOk THEN file ELSE <<>>

\* _json_saveBooking: read, push, write; null when the write fails.
json_saveBooking(db, file, booking, readOk, writeOk) ==
  LET bookings == Append(readFileOrEmpty(file, readOk), booking)
  IN IF writeOk THEN StoreReturn(booking, db, bookings)
     ELSE StoreReturn(Null, db, file)

\* _json_getUserBookings without options: filter by owner, newest first.
json_getUserBookings(db, file, userId, readOk) ==
  StoreReturn(Reverse(SelectSeq(readFileOrEmpty(file, readOk), LAMBDA b : b.userId = userId)),
              db, file)

useStorageMongoOnly(connected, mongoRes, jsonRes) ==
  IF mongoRes.kind = "return" THEN mongoRes ELSE StoreReturn(Null, mongoRes.db, mongoRes.file)

\* useStorage: the durable backend when the flag is up, the flat file when it
\* is down; the flat file again when the durable call throws.
useStorage(connected, mongoRes, jsonRes) ==
  LET first == IF connected THEN mongoRes ELSE jsonRes
  IN IF first.kind = "return" THEN first
     ELSE IF connected
       THEN IF jsonRes.kind = "return" THEN jsonRes
            ELSE StoreReturn(Null, jsonRes.db, jsonRes.file)
       ELSE StoreReturn(Null, first.db, first.file)

\* What the driver and the file system do during one gateway call.  Only the
\* backend that the flag selects is reached, so the other one's outcome is fixed.
StoreEnvs(connected) ==
  IF connected THEN [mongoOk : BOOLEAN, readOk : {TRUE}, writeOk : {TRUE}]
  ELSE [mongoOk : {TRUE}, readOk : BOOLEAN, writeOk : BOOLEAN]

AllOk == [mongoOk |-> TRUE, readOk |-> TRUE, writeOk |-> TRUE]

\* JSONStorage.saveBooking
saveBooking(connected, db, file, booking, env) ==
  useStorage(connected,
             MongoStorage_saveBooking(connected, db, file, booking, env.mongoOk),
             json_saveBooking(db, file, booking, env.readOk, env.writeOk))

\* JSONStorage.getUserBookings
getUserBookings(connected, db, file, userId, env) ==
  useStorage(connected,
             MongoStorage_getUserBookings(connected, db, file, userId, env.mongoOk),
             json_getUserBookings(db, file, userId, env.readOk))

\* _json_updateBooking: read, findIndex, merge in place, write; null when no
\* entry has the identifier and when the write fails.
json_updateBooking(db, file, bookingId, updates, readOk, writeOk, t) ==
  LET bookings == readFileOrEmpty(file, readOk)
  IN IF ~HasId(bookings, bookingId) THEN StoreReturn(Null, db, file)
     ELSE LET i == IndexOfId(bookings, bookingId)
              updated == Merge(bookings[i], updates, t)
          IN IF writeOk THEN StoreReturn(updated, db, [bookings EXCEPT ![i] = updated])
             ELSE StoreReturn(Null, db, file)

\* JSONStorage.updateBooking
updateBooking(connected, db, file, bookingId, updates, env, t) ==
  useStorage(connected,
             MongoStorage_updateBooking(connected, db, file, bookingId, updates, env.mongoOk, t),
             json_updateBooking(db, file, bookingId, updates, env.readOk, env.writeOk, t))

\* JSONStorage.getBooking: the class defines it twice and the second definition,
\* which reads the flat file, is the method.
getBooking(connected, db, file, bookingId, readOk) ==
  FirstWithId(readFileOrEmpty(file, readOk), bookingId)

NoStoreCall == [op |-> "none"]

StoreInit ==
  /\ isConnected = FALSE
  /\ mongoListening = FALSE
  /\ mongoBookings = <<>>
  /\ bookingsFile = <<>>
  /\ acked = {}
  /\ storeCall = NoStoreCall

Stored == Len(mongoBookings) + Len(bookingsFile)

Ack(val) == IF val = Null THEN acked ELSE acked \cup {<<val.bookingId, val.userId>>}

\* The record of one saveBooking call: the flag and the environment it ran
\* under, its argument, what it returned, and whether the flat file already
\* held the argument's identifier.
SaveRecord(op, status, env, booking, val) ==
  [op |-> op, status |-> status, connected |-> isConnected, env |-> env,
   arg |-> booking, val |-> val,
   fresh |-> ~HasId(bookingsFile, booking.bookingId)]

\* MongoStorage.init with MONGODB_URI set and the connection made.
MongoInitConnected ==
  /\ ~mongoListening
  /\ isConnected' = TRUE
  /\ mongoListening' = TRUE
  /\ UNCHANGED <<mongoBookings, bookingsFile, acked, storeCall>>
  /\ UNCHANGED <<aiVars, sockVars, chatVars>>

\* mongoose.connection 'error' and 'disconnected'
MongoDisconnected ==
  /\ mongoListening /\ isConnected
  /\ isConnected' = FALSE
  /\ UNCHANGED <<mongoListening, mongoBookings, bookingsFile, acked, storeCall>>
  /\ UNCHANGED <<aiVars, sockVars, chatVars>>

\* A 'reconnected' listener that also copies the flat file's bookings over.
MongoReconnectedReconciling ==
  /\ mongoListening /\ ~isConnected
  /\ isConnected' = TRUE
  /\ mongoBookings' = mongoBookings \o SelectSeq(bookingsFile, LAMBDA b : b \notin {mongoBookings[i] : i \in 1..Len(mongoBookings)})
  /\ UNCHANGED <<mongoListening, bookingsFile, acked, storeCall>>
  /\ UNCHANGED <<aiVars, sockVars, chatVars>>

\* mongoose.connection 'reconnected'
MongoReconnected ==
  /\ mongoListening /\ ~isConnected
  /\ isConnected' = TRUE
  /\ UNCHANGED <<mongoListening, mongoBookings, bookingsFile, acked, storeCall>>
  /\ UNCHANGED <<aiVars, sockVars, chatVars>>

(***************************************************************************)
(* Booking routes (src/routes/booking.js)                                  *)
(***************************************************************************)

\* router.post('/')
PostBook(requests) ==
  \E userId \in Users \cup {""}, data \in requests, id \in BookingIds,
     env \in StoreEnvs(isConnected) :
    /\ Stored < MaxBookings
    /\ IF userId = "" \/ ~validateBookingOk(data)
       THEN /\ storeCall' = [op |-> "POST book rejected", status |-> 400]
            /\ UNCHANGED <<mongoBookings, bookingsFile, acked>>
       ELSE LET booking == generateBookingConfirmation(validateBooking(data), userId, id)
                r == saveBooking(isConnected, mongoBookings, bookingsFile, booking, env)
            IN /\ mongoBookings' = r.db
               /\ bookingsFile' = r.file
               /\ acked' = Ack(r.val)
               /\ storeCall' = SaveRecord("POST book", IF r.val = Null THEN 400 ELSE 201,
                                          env, booking, r.val)
    /\ UNCHANGED <<isConnected, mongoListening>>
    /\ UNCHANGED <<aiVars, sockVars, chatVars>>

\* router.get('/:bookingId')
GetBookRoute(bookingId, readOk) ==
  LET b == getBooking(isConnected, mongoBookings, bookingsFile, bookingId, readOk)
  IN IF b = Null THEN [status |-> 404, booking |-> Null] ELSE [status |-> 200, booking |-> b]

GetBook ==
  \E bookingId \in BookingIds, readOk \in BOOLEAN :
    /\ storeCall' = [op |-> "GET book", id |-> bookingId, readOk |-> readOk,
                     res |-> GetBookRoute(bookingId, readOk)]
    /\ UNCHANGED <<isConnected, mongoListening, mongoBookings, bookingsFile, acked>>
    /\ UNCHANGED <<aiVars, sockVars, chatVars>>

\* router.get('/user/:userId') without query: the gateway's list, newest first.
GetUserBookingsRoute(userId, env) ==
  getUserBookings(isConnected, mongoBookings, bookingsFile, userId, env).val

GetUserBookings ==
  \E userId \in Users, env \in StoreEnvs(isConnected) :
    /\ storeCall' = [op |-> "GET book/user", userId |-> userId, env |-> env,
                     res |-> GetUserBookingsRoute(userId, env)]
    /\ UNCHANGED <<isConnected, mongoListening, mongoBookings, bookingsFile, acked>>
    /\ UNCHANGED <<aiVars, sockVars, chatVars>>

\* The identifier and the owner of every stored booking, by backend and position.
Identities(db, file) ==
  <<[i \in 1..Len(db) |-> <<db[i].bookingId, db[i].userId>>],
    [i \in 1..Len(file) |-> <<file[i].bookingId, file[i].userId>>]>>

\* The owners of the stored bookings that have the identifier, in either backend.
OwnersOf(db, file, bookingId) ==
  {db[i].userId : i \in {j \in 1..Len(db) : db[j].bookingId = bookingId}}
  \cup {file[i].userId : i \in {j \in 1..Len(file) : file[j].bookingId = bookingId}}

\* What a PUT or DELETE request answered: the request, whether the file system
\* and the driver worked, the owners and the identities stored before it, and
\* whether it changed a backend.
UpdateRecord(op, bookingId, userId, readOk, env, status, booking, db, file) ==
  [op |-> op, id |-> bookingId, userId |-> userId, connected |-> isConnected,
   envOk |-> (readOk /\ env = AllOk), status |-> status, booking |-> booking,
   owners |-> OwnersOf(mongoBookings, bookingsFile, bookingId),
   identities |-> Identities(mongoBookings, bookingsFile),
   changed |-> (db # mongoBookings \/ file # bookingsFile)]

\* validateBooking({ type: existingBooking.type, ...updates.bookingData })
WithType(type, data) == [data EXCEPT !.type = IF data.type = "" THEN type ELSE data.type]

\* The `updates` of the PUT requests: fields to set, and optionally bookingData.
PutUpdates ==
  {[fields |-> [NoUpdate EXCEPT !.status = "completed"], bookingData |-> Null],
   [fields |-> [NoUpdate EXCEPT !.status = "confirmed"], bookingData |-> Null],
   [fields |-> [NoUpdate EXCEPT !.userId = "u2"], bookingData |-> Null],
   [fields |-> [NoUpdate EXCEPT !.bookingId = "NX2"], bookingData |-> Null],
   [fields |-> NoUpdate, bookingData |-> [BusRequest EXCEPT !.type = "", !.to = "Pune"]],
   [fields |-> NoUpdate, bookingData |-> [BusNoTimeRequest EXCEPT !.type = ""]]}

\* router.put('/:bookingId'); the handler is one request, its awaits included.
PutBook ==
  \E bookingId \in BookingIds, userId \in Users, updates \in PutUpdates, readOk \in BOOLEAN,
     env \in StoreEnvs(isConnected) :
    LET existing == getBooking(isConnected, mongoBookings, bookingsFile, bookingId, readOk)
        Answer(status) ==
          /\ storeCall' = UpdateRecord("PUT book", bookingId, userId, readOk, env, status, Null,
                                      mongoBookings, bookingsFile)
          /\ UNCHANGED <<mongoBookings, bookingsFile>>
    IN /\ IF existing = Null THEN Answer(404)
          ELSE IF existing.userId # userId THEN Answer(403)
          ELSE IF updates.bookingData # Null
                  /\ ~validateBookingOk(WithType(existing.type, updates.bookingData))
          THEN Answer(400)
          ELSE LET validatedUpdates ==
                     IF updates.bookingData = Null THEN updates.fields
                     ELSE Spread(updates.fields,
                                 ValidatedFields(validateBooking(
                                   WithType(existing.type, updates.bookingData))))
                   r == updateBooking(isConnected, mongoBookings, bookingsFile, bookingId,
                                      validatedUpdates, env, now)
               IN /\ mongoBookings' = r.db
                  /\ bookingsFile' = r.file
                  /\ storeCall' = UpdateRecord("PUT book", bookingId, userId, readOk, env,
                                               IF r.val = Null THEN 400 ELSE 200, r.val,
                                               r.db, r.file)
       /\ UNCHANGED <<isConnected, mongoListening, acked>>
       /\ UNCHANGED <<aiVars, sockVars, chatVars>>

DefaultReason == "User cancellation"
CancelReasons == {"", "changed plans"}

\* router.delete('/:bookingId'): the status becomes 'cancelled', with the
\* reason and the time of the request.
DeleteBook ==
  \E bookingId \in BookingIds, userId \in Users, reason \in CancelReasons, readOk \in BOOLEAN,
     env \in StoreEnvs(isConnected) :
    LET existing == getBooking(isConnected, mongoBookings, bookingsFile, bookingId, readOk)
        Answer(status) ==
          /\ storeCall' = UpdateRecord("DELETE book", bookingId, userId, readOk, env, status, Null,
                                      mongoBookings, bookingsFile)
          /\ UNCHANGED <<mongoBookings, bookingsFile>>
    IN /\ IF existing = Null THEN Answer(404)
          ELSE IF existing.userId # userId THEN Answer(403)
          ELSE LET r == updateBooking(isConnected, mongoBookings, bookingsFile, bookingId,
                          [NoUpdate EXCEPT !.status = "cancelled",
                                           !.cancellationReason =
                                              IF reason = "" THEN DefaultReason ELSE reason,
                                           !.cancelledAt = now],
                          env, now)
               IN /\ mongoBookings' = r.db
                  /\ bookingsFile' = r.file
                  /\ storeCall' = UpdateRecord("DELETE book", bookingId, userId, readOk, env,
                                               IF r.val = Null THEN 400 ELSE 200, r.val,
                                               r.db, r.file)
       /\ UNCHANGED <<isConnected, mongoListening, acked>>
       /\ UNCHANGED <<aiVars, sockVars, chatVars>>

StoreNext ==
  \/ MongoInitConnected
  \/ MongoDisconnected
  \/ MongoReconnected
  \/ PostBook({BusRequest, BusNoTimeRequest})
  \/ GetBook
  \/ GetUserBookings

(***************************************************************************)
(* SocketHandler (src/utils/socketHandler.js)                              *)
(***************************************************************************)

Conns == {"s1", "s2"}
ConnSeq == <<"s1", "s2">>
MaxTime == 1
MaxPending == 1
MaxExchanges == 1
MaxChunks == 1
VoiceCap == 20

OrDefault(id) == IF id = "" THEN "default" ELSE id

\* `${userId}_${sessionId || 'default'}`: a room name and a context key
KeyOf(userId, id) == userId \o "_" \o OrDefault(id)

SessionIds == {"", "work"}

\* The keys a context map can hold.  A key is in the map exactly when its
\* context is not empty: a context is stored only after two turns were pushed.
ContextKeys == {KeyOf(u, id) : u \in Users, id \in SessionIds}

Packet(to, ev, body) == [to |-> to, ev |-> ev, body |-> body]

\* socket.emit: the transport ignores a packet written to a closed socket.
SocketEmit(c, ev, body) ==
  IF connStatus[c] = "open" THEN <<Packet(c, ev, body)>> ELSE <<>>

\* io.to(room).emit: every socket of the room, the sender included.
BroadcastToRoom(c, room, ev, body) ==
  LET hit == SelectSeq(ConnSeq, LAMBDA d : room \in rooms[d])
  IN [i \in 1..Len(hit) |-> Packet(hit[i], ev, body)]

\* socket.to(room).emit: every socket of the room but the sender.
BroadcastFrom(c, room, ev, body) ==
  LET hit == SelectSeq(ConnSeq, LAMBDA d : d # c /\ room \in rooms[d])
  IN [i \in 1..Len(hit) |-> Packet(hit[i], ev, body)]

\* An emit that reaches the registered sockets only.
IoEmitRegistered(ev, body) ==
  LET hit == SelectSeq(ConnSeq, LAMBDA d : connStatus[d] = "open" /\ activeUsers[d] # Null)
  IN [i \in 1..Len(hit) |-> Packet(hit[i], ev, body)]

\* io.emit: every connected socket.
IoEmit(ev, body) ==
  LET hit == SelectSeq(ConnSeq, LAMBDA d : connStatus[d] = "open")
  IN [i \in 1..Len(hit) |-> Packet(hit[i], ev, body)]

UnauthorizedText == "Unauthorized or invalid session"

\* const userInfo = this.activeUsers.get(socket.id);
\* if (!userInfo || userInfo.userId !== userId)
AuthKind(c, userId) ==
  IF activeUsers[c] = Null THEN "none"
  ELSE IF activeUsers[c].userId # userId THEN "mismatch"
  ELSE "ok"

\* userInfo.lastActivity = new Date().toISOString()
Touch(c) == [activeUsers EXCEPT ![c].lastActivity = now]

NoEvent == [event |-> "none"]

Handled(event, c, auth, emits) ==
  [event |-> event, conn |-> c, auth |-> auth, emits |-> emits]

\* The check failing without a word to the caller.
RejectSilently(event, c, userId, errorEvent) ==
  /\ outbox' = Handled(event, c, AuthKind(c, userId), <<>>)
  /\ UNCHANGED <<connStatus, activeUsers, rooms, voiceSessions, pending>>

\* The check made after the activity stamp instead of before it.
RejectTouching(event, c, userId, errorEvent) ==
  /\ outbox' = Handled(event, c, AuthKind(c, userId),
                       SocketEmit(c, errorEvent, UnauthorizedText))
  /\ activeUsers' = IF activeUsers[c] = Null THEN activeUsers ELSE Touch(c)
  /\ UNCHANGED <<connStatus, rooms, voiceSessions, pending>>

\* The branch that every checking handler takes when the check fails.
Reject(event, c, userId, errorEvent) ==
  /\ outbox' = Handled(event, c, AuthKind(c, userId),
                       SocketEmit(c, errorEvent, UnauthorizedText))
  /\ UNCHANGED <<connStatus, activeUsers, rooms, voiceSessions, pending>>

Ready(c) == connStatus[c] = "open" /\ outbox = NoEvent

SockInit ==
  /\ connStatus = [c \in Conns |-> "new"]
  /\ activeUsers = [c \in Conns |-> Null]
  /\ rooms = [c \in Conns |-> {}]
  /\ voiceSessions = [k \in ContextKeys |-> <<>>]
  /\ restVoiceSessions = [k \in ContextKeys |-> <<>>]
  /\ pending = {}
  /\ now = 0
  /\ outbox = NoEvent

\* io.on('connection')
Connect(c) ==
  /\ connStatus[c] = "new" /\ outbox = NoEvent
  /\ connStatus' = [connStatus EXCEPT ![c] = "open"]
  /\ UNCHANGED <<activeUsers, rooms, voiceSessions, pending, outbox>>
  /\ UNCHANGED <<now, restVoiceSessions, chatVars, aiVars, storeVars>>

\* The transport has written the packets of the last event.
Flush ==
  /\ outbox # NoEvent
  /\ outbox' = NoEvent
  /\ UNCHANGED <<connStatus, activeUsers, rooms, voiceSessions, pending>>
  /\ UNCHANGED <<now, restVoiceSessions, chatVars, aiVars, storeVars>>

\* new Date() moves on.
Tick ==
  /\ now < MaxTime /\ outbox = NoEvent
  /\ now' = now + 1
  /\ UNCHANGED <<connStatus, activeUsers, rooms, voiceSessions, pending, outbox>>
  /\ UNCHANGED <<restVoiceSessions, chatVars, aiVars, storeVars>>

handleUserConnect(c, userId, sessionId) ==
  /\ Ready(c)
  /\ IF userId = ""
     THEN /\ outbox' = Handled("user-connect", c, AuthKind(c, userId),
                               SocketEmit(c, "connection-error", "userId is required"))
          /\ UNCHANGED <<activeUsers, rooms>>
     ELSE /\ activeUsers' = [activeUsers EXCEPT ![c] =
               [userId |-> userId, sessionId |-> OrDefault(sessionId), lastActivity |-> now]]
          /\ rooms' = [rooms EXCEPT ![c] = @ \cup {userId, KeyOf(userId, sessionId)}]
          /\ outbox' = Handled("user-connect", c, AuthKind(c, userId),
                               SocketEmit(c, "connection-confirmed",
                                          [userId |-> userId, sessionId |-> OrDefault(sessionId)]))
  /\ UNCHANGED <<connStatus, voiceSessions, pending>>
  /\ UNCHANGED <<now, restVoiceSessions, chatVars, aiVars, storeVars>>

\* handleDisconnect, after the socket has left its rooms.
handleDisconnect(c) ==
  /\ Ready(c)
  /\ connStatus' = [connStatus EXCEPT ![c] = "closed"]
  /\ activeUsers' = [activeUsers EXCEPT ![c] = Null]
  /\ rooms' = [rooms EXCEPT ![c] = {}]
  /\ outbox' = Handled("disconnect", c, AuthKind(c, ""), <<>>)
  /\ UNCHANGED <<voiceSessions, pending>>
  /\ UNCHANGED <<now, restVoiceSessions, chatVars, aiVars, storeVars>>

CanSuspend == Cardinality(pending) < MaxPending

\* socket.on delivers a connection's events in arrival order, and the
\* dispatcher starts each handler without awaiting the one before: the
\* number of a new chat message, counted from the oldest one its connection
\* is still answering.
Arrival(c) ==
  LET held == {p.arrival : p \in {q \in pending : q.kind = "chat" /\ q.conn = c}}
  IN IF held = {} THEN 1 ELSE 1 + (CHOOSE n \in held : \A m \in held : m <= n)

handleChatMessageWithin(room, arrival, c, userId, conversationId) ==
  /\ Ready(c)
  /\ IF AuthKind(c, userId) # "ok" THEN Reject("chat-message", c, userId, "chat-error")
     ELSE /\ room
          /\ activeUsers' = Touch(c)
          /\ pending' = pending \cup
               \* const context = []: the provider call is given an empty history
               {[kind |-> "chat", conn |-> c, userId |-> userId, conversationId |-> conversationId,
                 history |-> <<>>, arrival |-> arrival]}
          /\ outbox' = Handled("chat-message", c, "ok",
                               SocketEmit(c, "chat-processing", "Processing your message..."))
          /\ UNCHANGED <<connStatus, rooms, voiceSessions>>
  /\ UNCHANGED <<now, restVoiceSessions, chatVars, aiVars, storeVars>>

handleChatMessage(c, userId, conversationId) ==
  handleChatMessageWithin(CanSuspend, 1, c, userId, conversationId)

\* An answer that sends the response and the error both.
ChatAnswerBoth(c, conversationId, r) ==
  SocketEmit(c, "chat-response",
             [message |-> r.response, source |-> r.source,
              conversationId |-> OrDefault(conversationId)])
    \o SocketEmit(c, "chat-error", "Failed to process message")

\* What handleChatMessage emits to its caller once processMessage is back:
\* 'chat-response' from the try block, or 'chat-error' from the catch.
ChatAnswer(c, conversationId, r) ==
  IF r.kind = "return"
  THEN SocketEmit(c, "chat-response",
                  [message |-> r.response, source |-> r.source,
                   conversationId |-> OrDefault(conversationId)])
  ELSE SocketEmit(c, "chat-error", "Failed to process message")

\* handleChatMessage after `await this.aiService.processMessage(message, [], ...)`
chatMessageResume(p, r) ==
  /\ outbox = NoEvent
  /\ p.kind = "chat"
  /\ pending' = pending \ {p}
  /\ outbox' = Handled("chat-message resumed", p.conn, "ok",
       ChatAnswer(p.conn, p.conversationId, r)
         \o (IF r.kind = "return"
             THEN BroadcastFrom(p.conn, p.userId, "chat-sync", [response |-> r.response])
             ELSE <<>>))
  /\ UNCHANGED <<connStatus, activeUsers, rooms, voiceSessions>>
  /\ UNCHANGED <<now, restVoiceSessions, chatVars, aiVars, storeVars>>

handleChatStreamRequest(c, userId, conversationId) ==
  /\ Ready(c)
  /\ IF AuthKind(c, userId) # "ok" THEN Reject("chat-stream-request", c, userId, "chat-error")
     ELSE /\ CanSuspend
          /\ activeUsers' = Touch(c)
          /\ pending' = pending \cup
               {[kind |-> "stream", conn |-> c, userId |-> userId,
                 conversationId |-> conversationId, fullResponse |-> <<>>]}
          /\ outbox' = Handled("chat-stream-request", c, "ok", <<>>)
          /\ UNCHANGED <<connStatus, rooms, voiceSessions>>
  /\ UNCHANGED <<now, restVoiceSessions, chatVars, aiVars, storeVars>>

\* streamResponse with a provider: callback(content, false) for one chunk.
streamChunk(p) ==
  /\ outbox = NoEvent
  /\ p.kind = "stream"
  /\ isDeepSeekAvailable \/ isOpenAIAvailable
  /\ Len(p.fullResponse) < MaxChunks
  /\ pending' = (pending \ {p}) \cup {[p EXCEPT !.fullResponse = Append(@, "chunk")]}
  /\ outbox' = Handled("chat-stream-request chunk", p.conn, "ok",
                       SocketEmit(p.conn, "chat-stream-chunk", "chunk"))
  /\ UNCHANGED <<connStatus, activeUsers, rooms, voiceSessions>>
  /\ UNCHANGED <<now, restVoiceSessions, chatVars, aiVars, storeVars>>

\* streamResponse ends with one callback(text, true): '' at the end of the
\* stream, the apology when the stream or the lookup throws, the web answer
\* when no provider is configured.  The handler sends what it accumulated.
streamComplete(p) ==
  /\ outbox = NoEvent
  /\ p.kind = "stream"
  /\ pending' = pending \ {p}
  /\ outbox' = Handled("chat-stream-request complete", p.conn, "ok",
                       SocketEmit(p.conn, "chat-stream-complete",
                                  [fullResponse |-> p.fullResponse,
                                   conversationId |-> OrDefault(p.conversationId)]))
  /\ UNCHANGED <<connStatus, activeUsers, rooms, voiceSessions>>
  /\ UNCHANGED <<now, restVoiceSessions, chatVars, aiVars, storeVars>>

Transcripts == {"book a bus ticket", "help me", "remind me", "hello"}

\* transcript.toLowerCase().includes(word), on the transcripts above
TranscriptIncludes(t, word) ==
  \/ t = "book a bus ticket" /\ word \in {"book", "bus", "ticket"}
  \/ t = "help me" /\ word = "help"
  \/ t = "remind me" /\ word = "remind"

\* SocketHandler.detectCommandType
detectCommandType(t) ==
  IF /\ TranscriptIncludes(t, "book")
     /\ \E w \in {"ticket", "flight", "train", "bus"} : TranscriptIncludes(t, w)
  THEN "booking"
  ELSE IF \E w \in {"emergency", "help", "urgent"} : TranscriptIncludes(t, w) THEN "emergency"
  ELSE IF \E w \in {"weather", "news", "search"} : TranscriptIncludes(t, w) THEN "information"
  ELSE "general"

\* detectCommandType of the voice routes
routeDetectCommandType(t) ==
  IF /\ TranscriptIncludes(t, "book")
     /\ \E w \in {"ticket", "flight", "train", "bus"} : TranscriptIncludes(t, w)
  THEN "booking"
  ELSE IF \E w \in {"emergency", "help", "urgent"} : TranscriptIncludes(t, w) THEN "emergency"
  ELSE IF \E w \in {"weather", "news", "search"} : TranscriptIncludes(t, w) THEN "information"
  ELSE IF \E w \in {"remind", "schedule", "calendar"} : TranscriptIncludes(t, w) THEN "reminder"
  ELSE IF \E w \in {"call", "message", "contact"} : TranscriptIncludes(t, w) THEN "communication"
  ELSE "general"

\* Confidence in hundredths; -1 is a request without the field.
NoConfidence == -1
ConfidenceThreshold == 70
FullConfidence == 100
Confidences == {NoConfidence, 0, 50, 69, 70, 100}

RepeatText == "I didn't quite catch that. Could you please repeat?"

\* if (confidence && confidence < 0.7): 0 and a missing field are falsy.
LowConfidence(confidence) ==
  confidence # NoConfidence /\ confidence # 0 /\ confidence < ConfidenceThreshold

\* confidence || 1.0
ConfidenceOrFull(confidence) ==
  IF confidence # NoConfidence /\ confidence # 0 THEN confidence ELSE FullConfidence

LastN(seq, n) == IF Len(seq) > n THEN SubSeq(seq, Len(seq) - n + 1, Len(seq)) ELSE seq

\* The two turns of one voice exchange.
VoiceTurns(transcript, response) ==
  <<[role |-> "user", content |-> transcript, type |-> "voice"],
    [role |-> "assistant", content |-> response, type |-> "voice"]>>

\* context.push(user turn, assistant turn); if over 20, context.slice(-20)
PushExchange(context, transcript, response) ==
  LastN(context \o VoiceTurns(transcript, response), VoiceCap)

\* The stores whose pushes the history variable records.
Stores == {"chat", "voice"}
Pushed(store, key, turns) == [appended EXCEPT ![store][key] = @ \o turns]

Turns(map) == LET RECURSIVE Sum(_)
                  Sum(ks) == IF ks = {} THEN 0
                             ELSE LET k == CHOOSE x \in ks : TRUE
                                  IN Len(map[k]) + Sum(ks \ {k})
              IN Sum(DOMAIN map)

\* The model stops taking voice exchanges at MaxExchanges stored exchanges.
VoiceRoom(map) == Turns(map) + 2 * Cardinality({p \in pending : p.kind = "voice"}) < 2 * MaxExchanges

\* The handler up to its await; `room` is the bound a specification puts on
\* the number of exchanges.
handleVoiceCommandWithin(room, c, userId, sessionId, transcript, confidence) ==
  /\ Ready(c)
  /\ IF AuthKind(c, userId) # "ok" THEN Reject("voice-command", c, userId, "voice-error")
     ELSE IF LowConfidence(confidence)
       THEN /\ activeUsers' = Touch(c)
            /\ outbox' = Handled("voice-command", c, "ok",
                 SocketEmit(c, "voice-response",
                            [response |-> RepeatText, requiresRepeat |-> TRUE,
                             confidence |-> confidence]))
            /\ UNCHANGED <<connStatus, rooms, voiceSessions, pending>>
       ELSE /\ room
            /\ activeUsers' = Touch(c)
            \* `context` is the array of the map, or a new one when the key is absent
            /\ pending' = pending \cup
                 {[kind |-> "voice", conn |-> c, userId |-> userId, sessionId |-> sessionId,
                   transcript |-> transcript, confidence |-> confidence,
                   shared |-> voiceSessions[KeyOf(userId, sessionId)] # <<>>]}
            /\ outbox' = Handled("voice-command", c, "ok", <<>>)
            /\ UNCHANGED <<connStatus, rooms, voiceSessions>>
  /\ UNCHANGED <<now, restVoiceSessions, chatVars, aiVars, storeVars>>

handleVoiceCommand(c, userId, sessionId, transcript, confidence) ==
  handleVoiceCommandWithin(CanSuspend /\ VoiceRoom(voiceSessions), c, userId, sessionId, transcript, confidence)

\* A handler that sends the booking advisory whatever the classification.
SpecialCommandAlways(c, commandType, transcript) ==
  SocketEmit(c, "voice-booking-detected", transcript)

\* The special commands of handleVoiceCommand: handleVoiceBookingCommand and
\* handleVoiceEmergencyCommand emit one advisory event and touch nothing else.
SpecialCommand(c, commandType, transcript) ==
  IF commandType = "booking" THEN SocketEmit(c, "voice-booking-detected", transcript)
  ELSE IF commandType = "emergency" THEN SocketEmit(c, "voice-emergency-detected", transcript)
  ELSE <<>>

\* handleVoiceCommand after `await this.aiService.processMessage(transcript, context)`
voiceCommandResume(p, r) ==
  /\ outbox = NoEvent
  /\ p.kind = "voice"
  /\ pending' = pending \ {p}
  /\ IF r.kind = "return"
     THEN LET key == KeyOf(p.userId, p.sessionId)
              context == IF p.shared THEN voiceSessions[key] ELSE <<>>
              commandType == detectCommandType(p.transcript)
          IN /\ voiceSessions' = [voiceSessions EXCEPT ![key] =
                                    PushExchange(context, p.transcript, r.response)]
             /\ appended' = Pushed("voice", key, VoiceTurns(p.transcript, r.response))
             /\ outbox' = Handled("voice-command resumed", p.conn, "ok",
                  SocketEmit(p.conn, "voice-response",
                             [response |-> r.response, requiresRepeat |-> FALSE,
                              commandType |-> commandType,
                              confidence |-> ConfidenceOrFull(p.confidence)])
                  \o SpecialCommand(p.conn, commandType, p.transcript))
     ELSE /\ outbox' = Handled("voice-command resumed", p.conn, "ok",
                 SocketEmit(p.conn, "voice-error", "Failed to process voice command"))
          /\ UNCHANGED <<voiceSessions, appended>>
  /\ UNCHANGED <<connStatus, activeUsers, rooms>>
  /\ UNCHANGED <<now, restVoiceSessions, conversations, aiVars, storeVars>>

handleVoiceStream(c, userId, isComplete) ==
  /\ Ready(c)
  /\ IF AuthKind(c, userId) # "ok" THEN Reject("voice-stream", c, userId, "voice-error")
     ELSE /\ outbox' = Handled("voice-stream", c, "ok",
               SocketEmit(c, "voice-stream-ack", isComplete)
               \o (IF isComplete
                   THEN SocketEmit(c, "voice-stream-processed", "Audio processing complete")
                   ELSE <<>>))
          /\ UNCHANGED <<connStatus, activeUsers, rooms, voiceSessions, pending>>
  /\ UNCHANGED <<now, restVoiceSessions, chatVars, aiVars, storeVars>>

WakeWords == {"Neura", "ok guardian", "jarvis"}

\* SocketHandler.handleWakeWord: responses[wakeWord.toLowerCase()] || the generic reply
handleWakeWord(wakeWord) ==
  IF wakeWord = "Neura" THEN "Yes, I'm here. How can I help you?"
  ELSE IF wakeWord = "ok guardian" THEN "Yes, I'm here. How may I help?"
  ELSE "I'm here. How can I assist you?"

handleWakeWordDetection(c, userId, wakeWord) ==
  /\ Ready(c)
  /\ IF AuthKind(c, userId) # "ok"
     THEN Reject("wake-word-detected", c, userId, "wake-word-error")
     ELSE /\ outbox' = Handled("wake-word-detected", c, "ok",
               SocketEmit(c, "wake-word-response",
                          [response |-> handleWakeWord(wakeWord), isListening |-> TRUE]))
          /\ UNCHANGED <<connStatus, activeUsers, rooms, voiceSessions, pending>>
  /\ UNCHANGED <<now, restVoiceSessions, chatVars, aiVars, storeVars>>

\* The model stops taking bookings at MaxBookings stored or being saved.
BookingRoom ==
  Stored + Cardinality({p \in pending : p.kind \in {"booking-request", "booking-confirmation"}})
    < MaxBookings

handleBookingRequest(c, userId, data, id) ==
  /\ Ready(c)
  /\ IF AuthKind(c, userId) # "ok" THEN Reject("booking-request", c, userId, "booking-error")
     ELSE IF ~validateBookingOk(data)
       THEN /\ activeUsers' = Touch(c)
            /\ outbox' = Handled("booking-request", c, "ok",
                 SocketEmit(c, "booking-processing", "Processing your booking request...")
                 \o SocketEmit(c, "booking-error", "Missing required field"))
            /\ UNCHANGED <<connStatus, rooms, voiceSessions, pending>>
       ELSE /\ CanSuspend /\ BookingRoom
            /\ activeUsers' = Touch(c)
            /\ pending' = pending \cup
                 {[kind |-> "booking-request", conn |-> c, userId |-> userId,
                   booking |-> generateBookingConfirmation(validateBooking(data), userId, id)]}
            /\ outbox' = Handled("booking-request", c, "ok",
                 SocketEmit(c, "booking-processing", "Processing your booking request..."))
            /\ UNCHANGED <<connStatus, rooms, voiceSessions>>
  /\ UNCHANGED <<now, restVoiceSessions, chatVars, aiVars, storeVars>>

\* An answer that notifies the user's other connections whatever the save
\* reported.
BookingAnswerEager(p, val) ==
  (IF val = Null
   THEN SocketEmit(p.conn, "booking-error", "Failed to save booking")
   ELSE SocketEmit(p.conn, "booking-confirmed", val))
    \o BroadcastFrom(p.conn, p.userId, "booking-notification", p.booking)

\* What handleBookingRequest emits once saveBooking is back: the throw on a
\* null result skips both success emits.
BookingAnswer(p, val) ==
  IF val = Null
  THEN SocketEmit(p.conn, "booking-error", "Failed to save booking")
  ELSE SocketEmit(p.conn, "booking-confirmed", val)
       \o BroadcastFrom(p.conn, p.userId, "booking-notification", val)

\* handleBookingRequest after `await this.storage.saveBooking(booking)`
bookingRequestResume(p, env) ==
  /\ outbox = NoEvent
  /\ p.kind = "booking-request"
  /\ pending' = pending \ {p}
  /\ LET r == saveBooking(isConnected, mongoBookings, bookingsFile, p.booking, env)
     IN /\ mongoBookings' = r.db
        /\ bookingsFile' = r.file
        /\ acked' = Ack(r.val)
        /\ storeCall' = SaveRecord("booking-request", IF r.val = Null THEN 400 ELSE 201,
                                   env, p.booking, r.val)
        /\ outbox' = Handled("booking-request resumed", p.conn, "ok", BookingAnswer(p, r.val))
  /\ UNCHANGED <<connStatus, activeUsers, rooms, voiceSessions, isConnected, mongoListening>>
  /\ UNCHANGED <<now, restVoiceSessions, chatVars, aiVars>>

\* generateBookingOptions makes five options and sorts them by price.
OptionCount == 5

\* The price variations that one simulation draws, one for each option.
Draws == [1..OptionCount -> PriceVariations]

\* Two of them, for the runs that are not about the options.
SampleDraws == {[i \in 1..OptionCount |-> 100], <<119, 100, 80, 100, 80>>}

generateBookingOptionsUnsorted(basePrice, draw) ==
  [i \in 1..OptionCount |-> Option(i, basePrice, draw[i])]

generateBookingOptions(basePrice, draw) ==
  SortByPrice([i \in 1..OptionCount |-> Option(i, basePrice, draw[i])])

handleBookingSimulationDrawing(draws, c, userId, data) ==
  /\ Ready(c)
  /\ IF AuthKind(c, userId) # "ok" THEN Reject("booking-simulation", c, userId, "booking-error")
     ELSE /\ \E draw \in draws :
               outbox' = Handled("booking-simulation", c, "ok",
                 IF validateBookingOk(data)
                 THEN SocketEmit(c, "booking-options",
                        [options |-> generateBookingOptions(estimatedPrice(data), draw)])
                 ELSE SocketEmit(c, "booking-error", "Missing required field"))
          /\ UNCHANGED <<connStatus, activeUsers, rooms, voiceSessions, pending>>
  /\ UNCHANGED <<now, restVoiceSessions, chatVars, aiVars, storeVars>>

handleBookingSimulation(c, userId, data) ==
  handleBookingSimulationDrawing(SampleDraws, c, userId, data)

\* The loop test of router.post('/simulate') draws its limit anew at every
\* test: Math.min(5, Math.max(3, Math.floor(Math.random() * 3) + 3)).
LoopLimits == 3..5
MaxLoopTests == 6

\* The limits of one run of the loop.  The tests of i = 0, 1, 2 pass and the
\* test of i = 5 fails under every limit, so those draws are fixed.
LimitDraws ==
  {[i \in 1..MaxLoopTests |-> IF i \in {4, 5} THEN x[i] ELSE 3] : x \in [{4, 5} -> LoopLimits]}

RECURSIVE simulateLoop(_, _, _, _)
simulateLoop(i, basePrice, draw, limits) ==
  IF i < limits[i + 1]
  THEN <<Option(i + 1, basePrice, draw[i + 1])>> \o simulateLoop(i + 1, basePrice, draw, limits)
  ELSE <<>>

\* router.post('/simulate')
PostSimulate(data, draw, limits) ==
  /\ outbox = NoEvent
  /\ outbox' =
       IF data = Null
       THEN [event |-> "POST book/simulate", status |-> 400,
             body |-> "Booking data is required for simulation"]
       ELSE IF ~validateBookingOk(data)
       THEN [event |-> "POST book/simulate", status |-> 400, body |-> "Missing required field"]
       ELSE [event |-> "POST book/simulate", status |-> 200,
             body |-> [options |-> SortByPrice(simulateLoop(0, estimatedPrice(data), draw, limits))]]
  /\ UNCHANGED <<connStatus, activeUsers, rooms, voiceSessions, restVoiceSessions, pending, now>>
  /\ UNCHANGED <<chatVars, aiVars, storeVars>>

\* handleBookingConfirmation: the booking data is not validated.
handleBookingConfirmation(c, userId, data, id) ==
  /\ Ready(c)
  /\ IF AuthKind(c, userId) # "ok"
     THEN Reject("booking-confirmation", c, userId, "booking-error")
     ELSE /\ CanSuspend /\ BookingRoom
          /\ pending' = pending \cup
               {[kind |-> "booking-confirmation", conn |-> c, userId |-> userId,
                 booking |-> generateBookingConfirmation(data, userId, id)]}
          /\ outbox' = Handled("booking-confirmation", c, "ok", <<>>)
          /\ UNCHANGED <<connStatus, activeUsers, rooms, voiceSessions>>
  /\ UNCHANGED <<now, restVoiceSessions, chatVars, aiVars, storeVars>>

\* handleBookingConfirmation after `await this.storage.saveBooking(booking)`
bookingConfirmationResume(p, env) ==
  /\ outbox = NoEvent
  /\ p.kind = "booking-confirmation"
  /\ pending' = pending \ {p}
  /\ LET r == saveBooking(isConnected, mongoBookings, bookingsFile, p.booking, env)
     IN /\ mongoBookings' = r.db
        /\ bookingsFile' = r.file
        /\ acked' = Ack(r.val)
        /\ storeCall' = SaveRecord("booking-confirmation", IF r.val = Null THEN 400 ELSE 201,
                                   env, p.booking, r.val)
        /\ outbox' = Handled("booking-confirmation resumed", p.conn, "ok",
             IF r.val = Null
             THEN SocketEmit(p.conn, "booking-error", "Failed to confirm booking")
             ELSE SocketEmit(p.conn, "booking-confirmed", r.val))
  /\ UNCHANGED <<connStatus, activeUsers, rooms, voiceSessions, isConnected, mongoListening>>
  /\ UNCHANGED <<now, restVoiceSessions, chatVars, aiVars>>

EmergencyTypes == {"medical", "fire"}

handleEmergencyAlert(c, userId, emergencyType) ==
  /\ Ready(c)
  /\ IF AuthKind(c, userId) # "ok" THEN Reject("emergency-alert", c, userId, "emergency-error")
     ELSE /\ outbox' = Handled("emergency-alert", c, "ok",
               SocketEmit(c, "emergency-response",
                          [userId |-> userId, type |-> emergencyType, priority |-> "critical"])
               \o IoEmit("emergency-broadcast", [userId |-> userId, type |-> emergencyType]))
          /\ UNCHANGED <<connStatus, activeUsers, rooms, voiceSessions, pending>>
  /\ UNCHANGED <<now, restVoiceSessions, chatVars, aiVars, storeVars>>

handleStatusUpdate(c, userId) ==
  /\ Ready(c)
  /\ IF AuthKind(c, userId) # "ok" THEN Reject("request-status-update", c, userId, "status-error")
     ELSE /\ outbox' = Handled("request-status-update", c, "ok",
               SocketEmit(c, "status-update",
                          [userId |-> userId, lastActivity |-> activeUsers[c].lastActivity,
                           sessionId |-> activeUsers[c].sessionId]))
          /\ UNCHANGED <<connStatus, activeUsers, rooms, voiceSessions, pending>>
  /\ UNCHANGED <<now, restVoiceSessions, chatVars, aiVars, storeVars>>

\* handleTypingStart and handleTypingStop look nothing up.
handleTyping(event, c, userId, conversationId, isTyping) ==
  /\ Ready(c)
  /\ outbox' = Handled(event, c, AuthKind(c, userId),
                       BroadcastFrom(c, KeyOf(userId, conversationId), "user-typing",
                                     [userId |-> userId, isTyping |-> isTyping]))
  /\ UNCHANGED <<connStatus, activeUsers, rooms, voiceSessions, pending>>
  /\ UNCHANGED <<now, restVoiceSessions, chatVars, aiVars, storeVars>>

handleTypingStart(c, userId, conversationId) ==
  handleTyping("typing-start", c, userId, conversationId, TRUE)

handleTypingStop(c, userId, conversationId) ==
  handleTyping("typing-stop", c, userId, conversationId, FALSE)

\* The events whose handler destructures its payload inside a try block, with
\* the event and the text that its catch block emits.
CaughtEvents ==
  [event : {"user-connect"}, error : {"connection-error"}, text : {"Failed to establish connection"}]
  \cup [event : {"chat-message"}, error : {"chat-error"}, text : {"Failed to process message"}]
  \cup [event : {"chat-stream-request"}, error : {"chat-stream-error"}, text : {"Failed to stream response"}]
  \cup [event : {"voice-command"}, error : {"voice-error"}, text : {"Failed to process voice command"}]
  \cup [event : {"voice-stream"}, error : {"voice-stream-error"}, text : {"Failed to process voice stream"}]
  \cup [event : {"wake-word-detected"}, error : {"wake-word-error"}, text : {"Failed to process wake word"}]
  \cup [event : {"booking-request", "booking-simulation", "booking-confirmation"},
        error : {"booking-error"}, text : {"Cannot destructure property of undefined"}]
  \cup [event : {"emergency-alert"}, error : {"emergency-error"}, text : {"Failed to process emergency alert"}]
  \cup [event : {"request-status-update"}, error : {"status-error"}, text : {"Failed to get status update"}]

\* handleTypingStart and handleTypingStop destructure outside any try block.
UncaughtEvents == {"typing-start", "typing-stop"}

PayloadEvents == {e.event : e \in CaughtEvents} \cup UncaughtEvents

\* An event that arrives without a payload: `const { userId, ... } = data`
\* throws a TypeError.  Inside a try block the catch emits the handler's error
\* event.  Outside one the error leaves the listener uncaught, and the process,
\* which installs no uncaughtException handler, exits: every connection drops
\* and what the process held in memory is gone.
handleWithoutPayload(event, c) ==
  /\ Ready(c)
  /\ IF event \in UncaughtEvents
     THEN /\ outbox' = [event |-> event, conn |-> c, auth |-> AuthKind(c, ""), emits |-> <<>>,
                        payload |-> "missing", uncaught |-> TRUE]
          /\ connStatus' = [d \in Conns |-> IF connStatus[d] = "open" THEN "closed" ELSE connStatus[d]]
          /\ activeUsers' = [d \in Conns |-> Null]
          /\ rooms' = [d \in Conns |-> {}]
          /\ voiceSessions' = [k \in ContextKeys |-> <<>>]
          /\ restVoiceSessions' = [k \in ContextKeys |-> <<>>]
          /\ conversations' = [k \in ContextKeys |-> <<>>]
          /\ pending' = {}
     ELSE /\ \E e \in CaughtEvents :
               /\ e.event = event
               /\ outbox' = [event |-> event, conn |-> c, auth |-> AuthKind(c, ""),
                             emits |-> SocketEmit(c, e.error, e.text),
                             payload |-> "missing", uncaught |-> FALSE]
          /\ UNCHANGED <<connStatus, activeUsers, rooms, voiceSessions, restVoiceSessions,
                         conversations, pending>>
  /\ UNCHANGED <<now, appended, aiVars, storeVars>>

(***************************************************************************)
(* Chat routes (src/routes/chat.js)                                        *)
(***************************************************************************)

ChatCap == 20
ChatMessages == {"hello", "what is the weather"}

ChatInit ==
  /\ conversations = [k \in ContextKeys |-> <<>>]
  /\ appended = [s \in Stores |-> [k \in ContextKeys |-> <<>>]]

\* The two messages of one chat exchange.
ChatTurns(message, response) ==
  <<[role |-> "user", content |-> message], [role |-> "assistant", content |-> response]>>

\* A push that keeps the oldest messages instead of the newest.
ChatPushKeepOldest(context, message, response) ==
  SubSeq(context \o ChatTurns(message, response), 1,
         IF Len(context) + 2 > ChatCap THEN ChatCap ELSE Len(context) + 2)

\* context.push(user, assistant); if (context.length > 20) context = context.slice(-20)
ChatPush(context, message, response) ==
  LastN(context \o ChatTurns(message, response), ChatCap)

\* router.post('/'); the handler is one request, its await included.  The
\* answer records the context the provider call was given.
PostChat(userId, conversationId, message, env) ==
    /\ outbox = NoEvent
    /\ IF message = "" \/ userId = ""
       THEN /\ outbox' = [event |-> "POST chat", status |-> 400, history |-> <<>>,
                          body |-> "Message and userId are required"]
            /\ UNCHANGED chatVars
       ELSE LET key == KeyOf(userId, conversationId)
                r == processMessage(isDeepSeekAvailable, isOpenAIAvailable, env)
            IN IF r.kind = "return"
               THEN /\ conversations' = [conversations EXCEPT ![key] =
                                           ChatPush(@, message, r.response)]
                    /\ appended' = Pushed("chat", key, ChatTurns(message, r.response))
                    /\ outbox' = [event |-> "POST chat", status |-> 200,
                                  history |-> conversations[key],
                                  body |-> [response |-> r.response, source |-> r.source,
                                            conversationId |-> OrDefault(conversationId)]]
               ELSE /\ outbox' = [event |-> "POST chat", status |-> 500,
                                  history |-> conversations[key],
                                  body |-> "Failed to process chat message"]
                    /\ UNCHANGED chatVars
    /\ UNCHANGED <<connStatus, activeUsers, rooms, voiceSessions, restVoiceSessions, pending, now>>
    /\ UNCHANGED <<aiVars, storeVars>>

\* The callback of router.post('/stream') applied to the callbacks of one
\* streamResponse, in order: a partial callback adds to fullResponse and
\* writes a chunk frame, a terminal one pushes the exchange and writes the
\* complete frame.
RECURSIVE streamCallbacks(_, _, _)
streamCallbacks(cbs, message, st) ==
  IF cbs = <<>> THEN st
  ELSE LET cb == Head(cbs)
       IN streamCallbacks(Tail(cbs), message,
            IF ~cb.isComplete
            THEN [st EXCEPT !.fullResponse = @ \o cb.content,
                            !.frames = Append(@, [type |-> "chunk", content |-> cb.content])]
            ELSE [st EXCEPT !.context = ChatPush(@, message, st.fullResponse),
                            !.pushed = @ \o ChatTurns(message, st.fullResponse),
                            !.frames = Append(@, [type |-> "complete",
                                                  content |-> st.fullResponse])])

\* router.post('/stream'); the handler is one request, its await included.
PostChatStream(userId, conversationId, message, env) ==
    /\ outbox = NoEvent
    /\ IF message = "" \/ userId = ""
       THEN /\ outbox' = [event |-> "POST chat/stream", status |-> 400, history |-> <<>>,
                          body |-> "Message and userId are required"]
            /\ UNCHANGED chatVars
       ELSE LET key == KeyOf(userId, conversationId)
                cbs == streamResponse(isDeepSeekAvailable, isOpenAIAvailable, env)
                st == streamCallbacks(cbs, message,
                        [context |-> conversations[key], fullResponse |-> "",
                         pushed |-> <<>>, frames |-> <<>>])
            IN /\ conversations' = [conversations EXCEPT ![key] = st.context]
               /\ appended' = Pushed("chat", key, st.pushed)
               /\ outbox' = [event |-> "POST chat/stream", status |-> 200,
                             history |-> conversations[key], callbacks |-> cbs,
                             body |-> st.frames]
    /\ UNCHANGED <<connStatus, activeUsers, rooms, voiceSessions, restVoiceSessions, pending, now>>
    /\ UNCHANGED <<aiVars, storeVars>>

\* router.post('/stream') up to its await: the request is accepted, the
\* context of its key is read and streamResponse starts.  `callbacks` are the
\* callbacks streamResponse has still to make; `open` tells whether the
\* client's connection is.
PostChatStreamOpen(userId, conversationId, message, env) ==
  /\ outbox = NoEvent
  /\ message # "" /\ userId # ""
  /\ pending' = pending \cup
       {[kind |-> "POST chat/stream", key |-> KeyOf(userId, conversationId), message |-> message,
         callbacks |-> streamResponse(isDeepSeekAvailable, isOpenAIAvailable, env),
         st |-> [context |-> conversations[KeyOf(userId, conversationId)], fullResponse |-> "",
                 pushed |-> <<>>, frames |-> <<>>],
         open |-> TRUE]}
  /\ outbox' = [event |-> "POST chat/stream accepted", status |-> 200,
                key |-> KeyOf(userId, conversationId)]
  /\ UNCHANGED <<connStatus, activeUsers, rooms, voiceSessions, restVoiceSessions, now>>
  /\ UNCHANGED <<chatVars, aiVars, storeVars>>

\* The client closes the connection of a streaming request.  The route
\* registers no 'close' listener: nothing in the server changes.
ClientClose(p) ==
  /\ outbox = NoEvent
  /\ p.kind = "POST chat/stream" /\ p.open
  /\ pending' = (pending \ {p}) \cup {[p EXCEPT !.open = FALSE]}
  /\ UNCHANGED <<connStatus, activeUsers, rooms, voiceSessions, restVoiceSessions, now, outbox>>
  /\ UNCHANGED <<chatVars, aiVars, storeVars>>

\* streamResponse makes its next callback.  res.write on a connection that
\* the client closed delivers nothing.
PostChatStreamCallback(p) ==
  /\ outbox = NoEvent
  /\ p.kind = "POST chat/stream" /\ p.callbacks # <<>>
  /\ LET cb == Head(p.callbacks)
         st == streamCallbacks(<<cb>>, p.message, p.st)
     IN /\ outbox' = [event |-> "POST chat/stream callback", status |-> 200, key |-> p.key,
                      written |-> st.frames[Len(st.frames)],
                      delivered |-> p.open]
        /\ IF cb.isComplete
           THEN /\ conversations' = [conversations EXCEPT ![p.key] = st.context]
                /\ appended' = Pushed("chat", p.key, st.pushed)
                /\ pending' = pending \ {p}
           ELSE /\ pending' = (pending \ {p}) \cup
                                {[p EXCEPT !.callbacks = Tail(@), !.st = st]}
                /\ UNCHANGED chatVars
  /\ UNCHANGED <<connStatus, activeUsers, rooms, voiceSessions, restVoiceSessions, now>>
  /\ UNCHANGED <<aiVars, storeVars>>

(***************************************************************************)
(* The message list of a provider call (src/utils/aiService.js)            *)
(***************************************************************************)

\* context.slice(-10)
HistoryWindow == 10
MaxContextLen == 12

SystemMessage ==
  [role |-> "system", content |-> "You are Neura-X Guardian Angel, a helpful AI assistant."]

\* A stored history of n turns, the i-th one marked i.
History(n) ==
  [i \in 1..n |-> [role |-> IF i % 2 = 1 THEN "user" ELSE "assistant",
                   content |-> "turn " \o ToString(i)]]

Histories == {History(n) : n \in 0..MaxContextLen}

\* callDeepSeek, with the chat model and with the reasoner.
callDeepSeekMessages(message, context) ==
  <<SystemMessage>> \o LastN(context, HistoryWindow) \o <<[role |-> "user", content |-> message]>>

\* callOpenAI
callOpenAIMessages(message, context) ==
  <<SystemMessage>> \o LastN(context, HistoryWindow) \o <<[role |-> "user", content |-> message]>>

\* A streamResponse that keeps the oldest turns.
streamResponseMessagesOldest(message, context) ==
  <<SystemMessage>>
    \o SubSeq(context, 1, IF Len(context) > HistoryWindow THEN HistoryWindow ELSE Len(context))
    \o <<[role |-> "user", content |-> message]>>

\* streamResponse
streamResponseMessages(message, context) ==
  <<SystemMessage>> \o LastN(context, HistoryWindow) \o <<[role |-> "user", content |-> message]>>

\* The provider calls: the primary with either model, the secondary, and the
\* streaming call of whichever client is configured.
ProviderCalls == {"deepseek-chat", "deepseek-reasoner", "gpt-3.5-turbo", "stream"}

\* One provider call with the message list it is given.
ProviderCall ==
  \E call \in ProviderCalls, context \in Histories, message \in ChatMessages :
    /\ call \in {"deepseek-chat", "deepseek-reasoner"} => isDeepSeekAvailable
    /\ call = "gpt-3.5-turbo" => isOpenAIAvailable
    /\ call = "stream" => isDeepSeekAvailable \/ isOpenAIAvailable
    /\ aiCall' = [kind |-> "messages", call |-> call, message |-> message, context |-> context,
                  messages |-> CASE call = "stream" -> streamResponseMessages(message, context)
                                 [] call = "gpt-3.5-turbo" -> callOpenAIMessages(message, context)
                                 [] OTHER -> callDeepSeekMessages(message, context)]
    /\ UNCHANGED <<isDeepSeekAvailable, isOpenAIAvailable>>
    /\ UNCHANGED <<storeVars, sockVars, chatVars>>

(***************************************************************************)
(* Voice routes (routes/voice.js)                                          *)
(***************************************************************************)

\* router.post('/process'); the handler is one request, its await included.
\* It answers into outbox as the request of no socket.
VoiceProcess(transcripts, confidences, envs) ==
  \E userId \in Users \cup {""}, sessionId \in SessionIds, t \in transcripts,
     confidence \in confidences, env \in envs :
    /\ outbox = NoEvent
    /\ IF userId = ""
       THEN /\ outbox' = [event |-> "POST voice/process", status |-> 400, confidence |-> confidence,
                          called |-> FALSE, body |-> "Transcript and userId are required"]
            /\ UNCHANGED restVoiceSessions
       ELSE IF LowConfidence(confidence)
       THEN /\ outbox' = [event |-> "POST voice/process", status |-> 200, confidence |-> confidence,
                          called |-> FALSE,
                          body |-> [response |-> RepeatText, requiresRepeat |-> TRUE]]
            /\ UNCHANGED restVoiceSessions
       ELSE LET r == processMessage(isDeepSeekAvailable, isOpenAIAvailable, env)
                key == KeyOf(userId, sessionId)
            IN /\ VoiceRoom(restVoiceSessions)
               /\ IF r.kind = "return"
                  THEN /\ restVoiceSessions' = [restVoiceSessions EXCEPT ![key] =
                                                  PushExchange(@, t, r.response)]
                       /\ outbox' = [event |-> "POST voice/process", status |-> 200,
                                     confidence |-> confidence, called |-> TRUE,
                                     body |-> [response |-> r.response, requiresRepeat |-> FALSE,
                                               commandType |-> routeDetectCommandType(t)]]
                  ELSE /\ outbox' = [event |-> "POST voice/process", status |-> 500,
                                     confidence |-> confidence, called |-> TRUE,
                                     body |-> "Failed to process voice input"]
                       /\ UNCHANGED restVoiceSessions
    /\ UNCHANGED <<connStatus, activeUsers, rooms, voiceSessions, pending, now>>
    /\ UNCHANGED <<chatVars, aiVars, storeVars>>

(***************************************************************************)
(* Specifications                                                          *)
(***************************************************************************)

vars == <<aiVars, storeVars, sockVars, chatVars>>

Init == AIInit /\ StoreInit /\ SockInit /\ ChatInit

\* What processMessage can hand back to a suspended handler.
AIResults(envs) ==
  {processMessage(isDeepSeekAvailable, isOpenAIAvailable, env) : env \in envs}

\* Every tier that is tried answers.
Answers == [ds : {"ok"}, oa : {"ok"}, web1 : {"AbstractText"}, web2 : {"AbstractText"}]

\* The model stops taking exchanges at MaxCapExchanges exchanges pushed or
\* being answered, over all stores.
MaxCapExchanges == 11
RECURSIVE SumLen(_, _)
SumLen(f, ks) == IF ks = {} THEN 0
                 ELSE LET k == CHOOSE x \in ks : TRUE IN Len(f[k]) + SumLen(f, ks \ {k})
Appended == SumLen(appended["chat"], ContextKeys) + SumLen(appended["voice"], ContextKeys)
CapRoom ==
  Appended + 2 * Cardinality({p \in pending : p.kind = "voice"}) < 2 * MaxCapExchanges

Next ==
  \/ ProcessMessageCall
  \/ StoreNext
  \/ \E c \in Conns : Connect(c)
  \/ \E c \in Conns, userId \in Users \cup {""}, id \in SessionIds : handleUserConnect(c, userId, id)
  \/ \E c \in Conns : handleDisconnect(c)
  \/ \E c \in Conns, userId \in Users, id \in SessionIds : handleChatMessage(c, userId, id)
  \/ \E p \in pending, r \in AIResults(AIEnvs) : chatMessageResume(p, r)
  \/ \E c \in Conns, userId \in Users, id \in SessionIds : handleChatStreamRequest(c, userId, id)
  \/ \E p \in pending : streamChunk(p)
  \/ \E p \in pending : streamComplete(p)
  \/ \E c \in Conns, userId \in Users, id \in SessionIds, t \in Transcripts,
        confidence \in Confidences : handleVoiceCommand(c, userId, id, t, confidence)
  \/ \E p \in pending, r \in AIResults(AIEnvs) : voiceCommandResume(p, r)
  \/ \E c \in Conns, userId \in Users, isComplete \in BOOLEAN :
       handleVoiceStream(c, userId, isComplete)
  \/ \E c \in Conns, userId \in Users, w \in WakeWords : handleWakeWordDetection(c, userId, w)
  \/ \E c \in Conns, userId \in Users, data \in BookingRequests, id \in BookingIds :
       handleBookingRequest(c, userId, data, id)
  \/ \E p \in pending, env \in StoreEnvs(isConnected) : bookingRequestResume(p, env)
  \/ \E c \in Conns, userId \in Users, data \in BookingRequests :
       handleBookingSimulation(c, userId, data)
  \/ \E c \in Conns, userId \in Users, data \in BookingRequests, id \in BookingIds :
       handleBookingConfirmation(c, userId, data, id)
  \/ \E p \in pending, env \in StoreEnvs(isConnected) : bookingConfirmationResume(p, env)
  \/ \E c \in Conns, userId \in Users, type \in EmergencyTypes :
       handleEmergencyAlert(c, userId, type)
  \/ \E c \in Conns, userId \in Users : handleStatusUpdate(c, userId)
  \/ \E c \in Conns, userId \in Users, id \in SessionIds : handleTypingStart(c, userId, id)
  \/ \E c \in Conns, userId \in Users, id \in SessionIds : handleTypingStop(c, userId, id)
  \/ \E c \in Conns, event \in PayloadEvents : handleWithoutPayload(event, c)
  \/ \E data \in SimulationRequests \cup {BusNoTimeRequest, Null}, draw \in Draws,
        limits \in LimitDraws : PostSimulate(data, draw, limits)
  \/ \E userId \in Users, conversationId \in SessionIds, env \in StreamEnvs :
       CapRoom /\ PostChatStreamOpen(userId, conversationId, "hello", env)
  \/ \E p \in pending : ClientClose(p)
  \/ \E p \in pending : PostChatStreamCallback(p)
  \/ ProviderCall
  \/ Flush
  \/ Tick
  \/ VoiceProcess(Transcripts, Confidences, AIEnvs)
  \/ StreamResponseCall
  \/ ValidateBookingCall
  \/ PutBook
  \/ DeleteBook
  \/ \E userId \in Users \cup {""}, id \in SessionIds, message \in ChatMessages \cup {""},
        env \in AIEnvs : CapRoom /\ PostChat(userId, id, message, env)
  \/ \E userId \in Users \cup {""}, id \in SessionIds, message \in ChatMessages \cup {""},
        env \in StreamEnvs : CapRoom /\ PostChatStream(userId, id, message, env)

Spec == Init /\ [][Next]_vars

\* The provider chain alone.
SpecAI == Init /\ [][ProcessMessageCall]_vars

\* The storage gateway and the booking routes alone; the provider flags are
\* not read.
StoreOnlyInit ==
  /\ isDeepSeekAvailable = FALSE
  /\ isOpenAIAvailable = FALSE
  /\ aiCall = NoCall
  /\ StoreInit
  /\ SockInit
  /\ ChatInit

SpecStore == StoreOnlyInit /\ [][StoreNext]_vars

\* The socket dispatcher with one session and one conversation per user and
\* one booking request.  DeepSeek is configured and answers; Mongo is not
\* configured, so every save is the flat file's.
SockOnlyInit ==
  /\ isDeepSeekAvailable = TRUE
  /\ isOpenAIAvailable = FALSE
  /\ aiCall = NoCall
  /\ StoreInit
  /\ SockInit
  /\ ChatInit

SockNext ==
  \/ \E c \in Conns : Connect(c)
  \/ \E c \in Conns, userId \in Users \cup {""} : handleUserConnect(c, userId, "")
  \/ \E c \in Conns : handleDisconnect(c)
  \/ \E c \in Conns, userId \in Users : handleChatMessage(c, userId, "")
  \/ \E p \in pending, r \in AIResults(Answers) : chatMessageResume(p, r)
  \/ \E c \in Conns, userId \in Users : handleChatStreamRequest(c, userId, "")
  \/ \E p \in pending : streamChunk(p)
  \/ \E p \in pending : streamComplete(p)
  \/ \E c \in Conns, userId \in Users :
       handleVoiceCommand(c, userId, "", "book a bus ticket", FullConfidence)
  \/ \E p \in pending, r \in AIResults(Answers) : voiceCommandResume(p, r)
  \/ \E c \in Conns, userId \in Users : handleVoiceStream(c, userId, TRUE)
  \/ \E c \in Conns, userId \in Users : handleWakeWordDetection(c, userId, "Neura")
  \/ \E c \in Conns, userId \in Users : handleBookingRequest(c, userId, BusRequest, "NX1")
  \/ \E p \in pending : bookingRequestResume(p, AllOk)
  \/ \E c \in Conns, userId \in Users : handleBookingSimulation(c, userId, BusRequest)
  \/ \E c \in Conns, userId \in Users : handleBookingConfirmation(c, userId, BusRequest, "NX1")
  \/ \E p \in pending : bookingConfirmationResume(p, AllOk)
  \/ \E c \in Conns, userId \in Users : handleEmergencyAlert(c, userId, "medical")
  \/ \E c \in Conns, userId \in Users : handleStatusUpdate(c, userId)
  \/ \E c \in Conns, userId \in Users : handleTypingStart(c, userId, "")
  \/ \E c \in Conns, userId \in Users : handleTypingStop(c, userId, "")
  \/ Flush
  \/ Tick

SpecSock == SockOnlyInit /\ [][SockNext]_vars

\* The authorization check: s1 registers as u1, s2 stays unregistered, and both
\* send every event under either user's name.
AuthNext ==
  \/ \E c \in Conns : Connect(c)
  \/ \E userId \in {"u1", ""} : handleUserConnect("s1", userId, "")
  \/ \E c \in Conns : handleDisconnect(c)
  \/ \E c \in Conns, userId \in Users : handleChatMessage(c, userId, "")
  \/ \E p \in pending, r \in AIResults(Answers) : chatMessageResume(p, r)
  \/ \E c \in Conns, userId \in Users : handleChatStreamRequest(c, userId, "")
  \/ \E p \in pending : streamChunk(p)
  \/ \E p \in pending : streamComplete(p)
  \/ \E c \in Conns, userId \in Users :
       handleVoiceCommand(c, userId, "", "book a bus ticket", FullConfidence)
  \/ \E p \in pending, r \in AIResults(Answers) : voiceCommandResume(p, r)
  \/ \E c \in Conns, userId \in Users : handleVoiceStream(c, userId, TRUE)
  \/ \E c \in Conns, userId \in Users : handleWakeWordDetection(c, userId, "Neura")
  \/ \E c \in Conns, userId \in Users : handleBookingRequest(c, userId, BusRequest, "NX1")
  \/ \E p \in pending : bookingRequestResume(p, AllOk)
  \/ \E c \in Conns, userId \in Users : handleBookingSimulation(c, userId, BusRequest)
  \/ \E c \in Conns, userId \in Users : handleBookingConfirmation(c, userId, BusRequest, "NX1")
  \/ \E p \in pending : bookingConfirmationResume(p, AllOk)
  \/ \E c \in Conns, userId \in Users : handleEmergencyAlert(c, userId, "medical")
  \/ \E c \in Conns, userId \in Users : handleStatusUpdate(c, userId)
  \/ \E c \in Conns, userId \in Users : handleTypingStart(c, userId, "")
  \/ \E c \in Conns, userId \in Users : handleTypingStop(c, userId, "")
  \/ Flush
  \/ Tick

SpecAuth == SockOnlyInit /\ [][AuthNext]_vars

\* Voice input alone, over the socket and over POST voice/process; no provider
\* is configured, so every answer is the web search's.
VoiceNext ==
  \/ \E c \in Conns : Connect(c)
  \/ \E c \in Conns, userId \in Users : handleUserConnect(c, userId, "")
  \/ \E c \in Conns, userId \in Users, t \in Transcripts, confidence \in Confidences :
       handleVoiceCommand(c, userId, "", t, confidence)
  \/ \E p \in pending, r \in AIResults(Answers) : voiceCommandResume(p, r)
  \/ Flush
  \/ VoiceProcess(Transcripts, Confidences, Answers)

SpecVoice == StoreOnlyInit /\ [][VoiceNext]_vars

\* streamResponse alone, called directly.
SpecStream == Init /\ [][StreamResponseCall]_vars

\* One user's exchanges on one key, one after the other: POST chat, POST
\* chat/stream and the socket's voice-command, each taken only when no other
\* exchange is being answered.  DeepSeek is configured and answers.
OneChunk == [create |-> "ok", chunks |-> <<"tok">>, fail |-> FALSE, web |-> "AbstractText"]

CapNext ==
  \/ Connect("s1")
  \/ handleUserConnect("s1", "u1", "")
  \/ \E t \in {"hello", "remind me"} :
       handleVoiceCommandWithin(CapRoom /\ pending = {}, "s1", "u1", "", t, NoConfidence)
  \/ \E p \in pending, r \in AIResults(Answers) : voiceCommandResume(p, r)
  \/ \E env \in Answers : CapRoom /\ pending = {} /\ PostChat("u1", "", "hello", env)
  \/ CapRoom /\ pending = {} /\ PostChatStream("u1", "", "hello", OneChunk)
  \/ Flush

SpecCap == SockOnlyInit /\ [][CapNext]_vars

\* Chat over the socket between two connections that register, re-register
\* and disconnect under either user.
SyncNext ==
  \/ \E c \in Conns : Connect(c)
  \/ \E c \in Conns, userId \in Users : handleUserConnect(c, userId, "")
  \/ \E c \in Conns : handleDisconnect(c)
  \/ \E c \in Conns, userId \in Users : handleChatMessage(c, userId, "")
  \/ \E p \in pending, r \in AIResults(Answers) : chatMessageResume(p, r)
  \/ Flush

SpecSync == SockOnlyInit /\ [][SyncNext]_vars

\* The events that send to other connections, between s1, which registers as
\* u1, and s2, which registers as u2 or not at all; either sends under
\* either user's name.
FanNext ==
  \/ \E c \in Conns : Connect(c)
  \/ handleUserConnect("s1", "u1", "")
  \/ handleUserConnect("s2", "u2", "")
  \/ \E c \in Conns : handleDisconnect(c)
  \/ \E c \in Conns, userId \in Users, type \in EmergencyTypes :
       handleEmergencyAlert(c, userId, type)
  \/ \E c \in Conns, userId \in Users : handleChatMessage(c, userId, "")
  \/ \E p \in pending, r \in AIResults(Answers) : chatMessageResume(p, r)
  \/ \E c \in Conns, userId \in Users : handleBookingRequest(c, userId, BusRequest, "NX1")
  \/ \E p \in pending : bookingRequestResume(p, AllOk)
  \/ \E c \in Conns, userId \in Users : handleStatusUpdate(c, userId)
  \/ \E c \in Conns, userId \in Users : handleTypingStart(c, userId, "")
  \/ \E c \in Conns, userId \in Users : handleTypingStop(c, userId, "")
  \/ Flush

SpecFan == SockOnlyInit /\ [][FanNext]_vars

\* Chat messages of one registered connection, up to MaxInFlight of them
\* being answered at a time; the provider calls complete in any order.
MaxInFlight == 2
MaxArrivals == 3

OrderNext ==
  \/ Connect("s1")
  \/ \E sessionId \in SessionIds : handleUserConnect("s1", "u1", sessionId)
  \/ \E conversationId \in SessionIds :
       handleChatMessageWithin(
         Cardinality(pending) < MaxInFlight /\ Arrival("s1") <= MaxArrivals,
         Arrival("s1"), "s1", "u1", conversationId)
  \/ \E p \in pending, r \in AIResults(Answers) : chatMessageResume(p, r)
  \/ handleDisconnect("s1")
  \/ Tick
  \/ Flush

SpecOrder == SockOnlyInit /\ [][OrderNext]_vars

\* Booking requests of one registered connection, issued and issued again;
\* the flat file is the only backend and every save succeeds.
ReissueNext ==
  \/ Connect("s1")
  \/ \E sessionId \in SessionIds : handleUserConnect("s1", "u1", sessionId)
  \/ \E data \in {BusRequest, FlightRequest}, id \in BookingIds :
       handleBookingRequest("s1", "u1", data, id)
  \/ \E p \in pending : bookingRequestResume(p, AllOk)
  \/ Tick
  \/ Flush

SpecReissue == SockOnlyInit /\ [][ReissueNext]_vars

\* Two connections that register and send events with and without a payload.
PayloadNext ==
  \/ \E c \in Conns : Connect(c)
  \/ \E c \in Conns, userId \in Users : handleUserConnect(c, userId, "")
  \/ \E c \in Conns, userId \in Users : handleStatusUpdate(c, userId)
  \/ \E c \in Conns, userId \in Users : handleTypingStart(c, userId, "")
  \/ \E c \in Conns, userId \in Users : handleTypingStop(c, userId, "")
  \/ \E c \in Conns, event \in PayloadEvents : handleWithoutPayload(event, c)
  \/ Flush

SpecPayload == SockOnlyInit /\ [][PayloadNext]_vars

\* Booking simulations over the socket and over the REST route, with every
\* draw of the price variations and of the loop limits.
SimulateNext ==
  \/ Connect("s1")
  \/ handleUserConnect("s1", "u1", "")
  \/ \E userId \in Users, data \in SimulationRequests \cup {BusNoTimeRequest} :
       handleBookingSimulationDrawing(Draws, "s1", userId, data)
  \/ \E data \in SimulationRequests \cup {BusNoTimeRequest, Null}, draw \in Draws,
        limits \in LimitDraws : PostSimulate(data, draw, limits)
  \/ Flush

SpecSimulate == SockOnlyInit /\ [][SimulateNext]_vars

\* Streaming chat requests on fresh conversations, under every configuration
\* of the providers and every course of the stream.
RelayNext ==
  \/ \E userId \in Users, conversationId \in SessionIds, env \in StreamEnvs :
       /\ conversations[KeyOf(userId, conversationId)] = <<>>
       /\ Appended = 0
       /\ PostChatStream(userId, conversationId, "hello", env)
  \/ Flush

SpecRelay == Init /\ [][RelayNext]_vars

\* One streaming chat request at a time on a fresh conversation of u1; the
\* client may close the connection at any point of the stream.
CancelNext ==
  \/ \E conversationId \in SessionIds, env \in StreamEnvs :
       /\ pending = {} /\ conversations[KeyOf("u1", conversationId)] = <<>>
       /\ PostChatStreamOpen("u1", conversationId, "hello", env)
  \/ \E p \in pending : ClientClose(p)
  \/ \E p \in pending : PostChatStreamCallback(p)
  \/ Flush

SpecCancel == SockOnlyInit /\ [][CancelNext]_vars

\* The provider calls alone, on histories of every length up to MaxContextLen.
SpecMessages == Init /\ [][ProviderCall]_vars

\* Voice commands of one registered connection, of every class and
\* confidence, beside a booking request that stores a booking.
AdvisoryNext ==
  \/ Connect("s1")
  \/ handleUserConnect("s1", "u1", "")
  \/ handleDisconnect("s1")
  \/ \E userId \in Users, t \in Transcripts, confidence \in Confidences :
       handleVoiceCommand("s1", userId, "", t, confidence)
  \/ \E p \in pending, r \in AIResults(Answers) : voiceCommandResume(p, r)
  \/ handleBookingRequest("s1", "u1", BusRequest, "NX1")
  \/ \E p \in pending : bookingRequestResume(p, AllOk)
  \/ Flush

SpecAdvisory == SockOnlyInit /\ [][AdvisoryNext]_vars

\* Booking requests, valid and not, between two connections of u1 or of u1
\* and u2, with every outcome of the save in either backend.
BookingNext ==
  \/ \E c \in Conns : Connect(c)
  \/ handleUserConnect("s1", "u1", "")
  \/ \E userId \in Users : handleUserConnect("s2", userId, "")
  \/ handleDisconnect("s1")
  \/ MongoInitConnected
  \/ \E data \in {BusRequest, BusNoTimeRequest}, id \in BookingIds :
       handleBookingRequest("s1", "u1", data, id)
  \/ \E p \in pending, env \in StoreEnvs(isConnected) : bookingRequestResume(p, env)
  \/ Flush

SpecBooking == SockOnlyInit /\ [][BookingNext]_vars

\* One connection of u1 that requests and confirms bookings, with and without
\* a time, against the flat file.
ConfirmNext ==
  \/ Connect("s1")
  \/ handleUserConnect("s1", "u1", "")
  \/ \E data \in {BusRequest, BusNoTimeRequest}, id \in BookingIds :
       handleBookingRequest("s1", "u1", data, id)
  \/ \E p \in pending, env \in StoreEnvs(isConnected) : bookingRequestResume(p, env)
  \/ \E data \in {BusRequest, BusNoTimeRequest}, id \in BookingIds :
       handleBookingConfirmation("s1", "u1", data, id)
  \/ \E p \in pending, env \in StoreEnvs(isConnected) : bookingConfirmationResume(p, env)
  \/ Flush

SpecConfirm == SockOnlyInit /\ [][ConfirmNext]_vars

\* Identifier strings, with and without the separator in them.
Identifiers == {"u1", "u2", "work", "default", "u1_work", "work_default"}

\* The context key of two requests and the rooms that two registrations
\* join, composed as the routes and handleUserConnect compose them.
ComposeKeys ==
  \E a \in Identifiers \X Identifiers, b \in Identifiers \X Identifiers :
    /\ outbox = NoEvent
    /\ outbox' = [event |-> "key composition", a |-> a, b |-> b,
                  keyA |-> KeyOf(a[1], a[2]), keyB |-> KeyOf(b[1], b[2]),
                  roomsA |-> {a[1], KeyOf(a[1], a[2])}, roomsB |-> {b[1], KeyOf(b[1], b[2])}]
    /\ UNCHANGED <<connStatus, activeUsers, rooms, voiceSessions, restVoiceSessions, pending, now>>
    /\ UNCHANGED <<chatVars, aiVars, storeVars>>

KeysNext ==
  \/ ComposeKeys
  \/ Flush

SpecKeys == SockOnlyInit /\ [][KeysNext]_vars

\* Voice commands of one registered connection that overlap: a second one may
\* start while the first awaits its provider call, up to MaxOverlap
\* exchanges in all.
MaxOverlap == 2

OverlapRoom ==
  /\ Cardinality(pending) < MaxInFlight
  /\ Turns(appended["voice"]) + 2 * (Cardinality(pending) + 1) <= 2 * MaxOverlap

OverlapNext ==
  \/ Connect("s1")
  \/ handleUserConnect("s1", "u1", "")
  \/ \E sessionId \in SessionIds, t \in {"hello", "remind me", "what is the weather"} :
       handleVoiceCommandWithin(OverlapRoom, "s1", "u1", sessionId, t, NoConfidence)
  \/ \E p \in pending, r \in AIResults(Answers) : voiceCommandResume(p, r)
  \/ Flush

SpecOverlap == SockOnlyInit /\ [][OverlapNext]_vars

\* _json_saveBooking up to `await this.writeFile(...)`: the file was read and the
\* booking pushed onto the array that was read.
json_saveBookingRead(userId, id, readOk) ==
  /\ ~isConnected
  /\ Cardinality(pending) < MaxInFlight
  /\ Len(bookingsFile) + Cardinality(pending) < MaxBookings
  /\ LET booking == generateBookingConfirmation(validateBooking(BusRequest), userId, id)
     IN pending' = pending \cup
          {[kind |-> "saveBooking", booking |-> booking,
            bookings |-> Append(readFileOrEmpty(bookingsFile, readOk), booking)]}
  /\ UNCHANGED <<connStatus, activeUsers, rooms, voiceSessions, restVoiceSessions, now, outbox>>
  /\ UNCHANGED <<chatVars, aiVars, storeVars>>

\* _json_saveBooking from the write on: the array replaces the file, and the
\* call returns the booking, or null when the write failed.
json_saveBookingWrite(p, writeOk) ==
  /\ p.kind = "saveBooking"
  /\ pending' = pending \ {p}
  /\ LET val == IF writeOk THEN p.booking ELSE Null
     IN /\ bookingsFile' = (IF writeOk THEN p.bookings ELSE bookingsFile)
        /\ acked' = Ack(val)
        /\ storeCall' = [op |-> "saveBooking", arg |-> p.booking, val |-> val]
  /\ UNCHANGED <<isConnected, mongoListening, mongoBookings>>
  /\ UNCHANGED <<connStatus, activeUsers, rooms, voiceSessions, restVoiceSessions, now, outbox>>
  /\ UNCHANGED <<chatVars, aiVars>>

\* Flat-file saves whose reads and writes interleave; every read succeeds.
RaceNext ==
  \/ \E userId \in Users, id \in BookingIds : json_saveBookingRead(userId, id, TRUE)
  \/ \E p \in pending, writeOk \in BOOLEAN : json_saveBookingWrite(p, writeOk)

SpecRace == StoreOnlyInit /\ [][RaceNext]_vars

\* validateBooking alone, called directly.
SpecValidate == StoreOnlyInit /\ [][ValidateBookingCall]_vars

\* The booking routes that create, change and cancel one booking, under every
\* health event of the durable backend.
OwnerNext ==
  \/ MongoInitConnected
  \/ MongoDisconnected
  \/ MongoReconnected
  \/ Stored = 0 /\ PostBook({BusRequest})
  \/ PutBook
  \/ DeleteBook

SpecOwner == StoreOnlyInit /\ [][OwnerNext]_vars

(***************************************************************************)
(* Provider chain properties                                               *)
(***************************************************************************)

(***************************************************************************)

\* C2: whenever DeepSeek is configured and its call fails, and OpenAI is
\* configured and its call succeeds, processMessage answers with source
\* 'openai', whatever the DeepSeek error was.
C2_SecondaryAfterAnyPrimaryFailure ==
  (/\ aiCall.kind = "call"
   /\ isDeepSeekAvailable /\ isOpenAIAvailable
   /\ aiCall.env.ds # "ok" /\ aiCall.env.oa = "ok")
  => /\ aiCall.out.kind = "return"
     /\ aiCall.out.source = "openai"

\* Every configured provider fails and both instant-answer lookups throw.
AllTiersFail(env) ==
  /\ isDeepSeekAvailable => env.ds # "ok"
  /\ isOpenAIAvailable => env.oa # "ok"
  /\ env.web1 = "throw" /\ env.web2 = "throw"

\* C3: processMessage never throws: for every configuration and every
\* combination of failing calls it returns a response whose source is
\* 'deepseek', 'openai', 'web_search' or 'error', and when every tier fails the
\* response is the fixed apology with source 'error'.
C3_NeverThrows ==
  aiCall.kind = "call" =>
    /\ aiCall.out.kind = "return"
    /\ aiCall.out.source \in {"deepseek", "openai", "web_search", "error"}
    /\ AllTiersFail(aiCall.env) =>
         aiCall.out.response = ApologyText /\ aiCall.out.source = "error"
    /\ aiCall.out.source = "error" => aiCall.out.response = ApologyText

\* Both providers configured, everything fails, and the apology is returned.
C3_Witness ==
  /\ aiCall.kind = "call"
  /\ isDeepSeekAvailable /\ isOpenAIAvailable
  /\ AllTiersFail(aiCall.env)
  /\ aiCall.out.kind = "return" /\ aiCall.out.source = "error"

(***************************************************************************)
(* Storage gateway properties                                              *)
(***************************************************************************)


C5_RetryOnDurableFailure ==
  (/\ storeCall.op = "POST book"
   /\ storeCall.connected
   /\ ~storeCall.env.mongoOk
   /\ storeCall.env.readOk /\ storeCall.env.writeOk)
  => /\ storeCall.val = storeCall.arg
     /\ storeCall.status = 201

C7_NoLostWrites ==
  \A a \in acked :
    LET list == GetUserBookingsRoute(a[2], AllOk)
    IN \E i \in 1..Len(list) : list[i].bookingId = a[1] /\ list[i].userId = a[2]

\* C1 (as stated): a voice request with a numeric confidence c, 0 <= c < 0.7,
\* gets the fixed "please repeat" reply with requiresRepeat = true, makes no
\* processMessage call and leaves the voice context alone.  On the socket a
\* request that passed the gate is a pending voice call; over REST the reply
\* records whether processMessage was called.
C1_ConfidenceGate ==
  /\ \A p \in pending :
       p.kind = "voice" => ~(0 <= p.confidence /\ p.confidence < ConfidenceThreshold)
  /\ (/\ outbox.event = "POST voice/process"
      /\ outbox.status = 200
      /\ 0 <= outbox.confidence /\ outbox.confidence < ConfidenceThreshold)
     => /\ ~outbox.called
        /\ outbox.body.requiresRepeat
        /\ outbox.body.response = RepeatText

CheckedEvents == {"chat-message", "chat-stream-request", "voice-command", "voice-stream",
                  "wake-word-detected", "booking-request", "booking-simulation",
                  "booking-confirmation", "emergency-alert", "request-status-update"}

TypingEvents == {"typing-start", "typing-stop"}

ErrorEvents == {"chat-error", "voice-error", "wake-word-error", "booking-error",
                "emergency-error", "status-error"}

\* The event was answered with one authorization error, to its sender.
OneAuthorizationError(o) ==
  /\ Len(o.emits) = 1
  /\ o.emits[1].to = o.conn
  /\ o.emits[1].ev \in ErrorEvents
  /\ o.emits[1].body = UnauthorizedText

C9_MismatchRejected ==
  [][(/\ outbox = NoEvent
      /\ outbox'.event \in CheckedEvents
      /\ outbox'.auth = "mismatch")
     => /\ OneAuthorizationError(outbox')
        /\ activeUsers[outbox'.conn] # Null
        /\ UNCHANGED <<connStatus, activeUsers, rooms, voiceSessions, restVoiceSessions,
                       pending, mongoBookings, bookingsFile>>]_vars

\* A booking request under another user's id was rejected on a connection whose
\* last activity is in the past, with a booking stored and a voice context kept.
C9_Witness ==
  /\ outbox.event = "booking-request" /\ outbox.auth = "mismatch"
  /\ activeUsers[outbox.conn].lastActivity < now
  /\ Len(bookingsFile) > 0
  /\ \E k \in ContextKeys : voiceSessions[k] # <<>>

ResumedEvents == {"chat-message resumed", "chat-stream-request chunk",
                  "chat-stream-request complete", "voice-command resumed",
                  "booking-request resumed", "booking-confirmation resumed"}

\* C10 (as stated): a handler that goes on after its connection has
\* disconnected delivers no event.
C10_NoZombieDeliveries ==
  (outbox.event \in ResumedEvents /\ connStatus[outbox.conn] = "closed")
    => outbox.emits = <<>>


\* The connections that the last event sent `ev` to.
SentTo(o, ev) == {o.emits[i].to : i \in {j \in 1..Len(o.emits) : o.emits[j].ev = ev}}

\* C18: when the handler of a chat message accepted for user U finishes,
\* 'chat-sync' is delivered to every other open connection registered to U
\* and is not delivered to the connection the message came from.
C18_ChatSyncToSiblings ==
  [][\A p \in pending :
       (p.kind = "chat" /\ p \notin pending') =>
         /\ \A d \in Conns \ {p.conn} :
              (connStatus[d] = "open" /\ activeUsers[d] # Null
                 /\ activeUsers[d].userId = p.userId) => d \in SentTo(outbox', "chat-sync")
         /\ p.conn \notin SentTo(outbox', "chat-sync")]_vars

\* A chat message was answered and mirrored to the user's other connection.
C18_Witness ==
  /\ outbox.event = "chat-message resumed"
  /\ \E d \in Conns \ {outbox.conn} :
       /\ d \in SentTo(outbox, "chat-sync")
       /\ activeUsers[d] # Null
       /\ activeUsers[outbox.conn] # Null
       /\ activeUsers[d].userId = activeUsers[outbox.conn].userId

\* The events a handler sends to a room.
RoomEvents == {"chat-sync", "booking-notification", "user-typing"}

\* C20: an authorized emergency-alert sends 'emergency-response' to the
\* caller and 'emergency-broadcast' to every open connection, the caller's
\* and those of other users and of no user included; no other event reaches
\* a connection other than its sender's except through a room the receiver
\* has joined.
C20_EmergencyFanOut ==
  outbox.event # "none" /\ outbox.event \notin {"POST voice/process", "POST chat", "POST chat/stream"} =>
    /\ (outbox.event = "emergency-alert" /\ outbox.auth = "ok") =>
         /\ SentTo(outbox, "emergency-response") = {outbox.conn}
         /\ SentTo(outbox, "emergency-broadcast") = {d \in Conns : connStatus[d] = "open"}
    /\ \A i \in 1..Len(outbox.emits) :
         LET pk == outbox.emits[i]
         IN pk.to # outbox.conn =>
              \/ outbox.event = "emergency-alert" /\ pk.ev = "emergency-broadcast"
              \/ pk.ev \in RoomEvents /\ rooms[pk.to] # {}

\* An emergency alert of u1 reached the open connection of u2.
C20_Witness ==
  /\ outbox.event = "emergency-alert" /\ outbox.auth = "ok"
  /\ \E d \in Conns \ {outbox.conn} :
       /\ d \in SentTo(outbox, "emergency-broadcast")
       /\ activeUsers[d] # Null
       /\ activeUsers[d].userId # activeUsers[outbox.conn].userId

\* C21: two chat messages sent on one connection are answered in the order
\* they arrived, however their provider calls complete: a chat message is
\* answered only when no earlier chat message of its connection is still
\* waiting for its answer.
C21_ArrivalOrder ==
  [][\A p \in pending :
       (p.kind = "chat" /\ p \notin pending') =>
         \A q \in pending :
           (q.kind = "chat" /\ q.conn = p.conn) => p.arrival <= q.arrival]_vars

\* The bookings that storage holds, in either backend.
Held(db, file) == {db[i] : i \in 1..Len(db)} \cup {file[i] : i \in 1..Len(file)}

\* Two bookings made from the same userId and bookingData.
SameRequest(a, b) == [a EXCEPT !.bookingId = ""] = [b EXCEPT !.bookingId = ""]

\* C22: a booking-request is idempotent: when the handler of a
\* booking-request finishes and storage already holds a booking made from
\* the same userId and bookingData, storage holds the same set of bookings
\* as before.
C22_ReissueIdempotent ==
  [][\A p \in pending :
       (/\ p.kind = "booking-request" /\ p \notin pending'
        /\ \E b \in Held(mongoBookings, bookingsFile) : SameRequest(b, p.booking))
         => Held(mongoBookings', bookingsFile') = Held(mongoBookings, bookingsFile)]_vars

\* The bookings of both backends, one after the other.
AllStored == mongoBookings \o bookingsFile

\* C23: booking identifiers are globally unique: after any sequence of
\* booking creations no two bookings in storage share a bookingId.
C23_UniqueBookingIds ==
  \A i, j \in 1..Len(AllStored) :
    AllStored[i].bookingId = AllStored[j].bookingId => i = j

\* C24: every handler of an inbound event catches the error raised by a
\* missing payload and answers its error event: no inbound event raises an
\* uncaught exception.
C24_EveryHandlerCatches ==
  (outbox.event \in PayloadEvents /\ "payload" \in DOMAIN outbox) =>
    /\ ~outbox.uncaught
    /\ Len(outbox.emits) = 1
    /\ outbox.emits[1].to = outbox.conn

\* The options that the last simulation answered, or none.
OptionsOf(o) ==
  IF o.event = "POST book/simulate" /\ o.status = 200 THEN {o.body.options}
  ELSE IF o.event = "booking-simulation"
  THEN {o.emits[i].body.options : i \in {j \in 1..Len(o.emits) : o.emits[j].ev = "booking-options"}}
  ELSE {}

\* C25: a booking simulation for valid booking data answers between 3 and 5
\* options, each with a positive estimatedPrice, in ascending order of
\* estimatedPrice, on the REST route and on the socket event, whatever the
\* random draws.
C25_SimulationOptions ==
  \A options \in OptionsOf(outbox) :
    /\ Len(options) \in 3..5
    /\ \A i \in 1..Len(options) : options[i].estimatedPrice > 0
    /\ \A i \in 1..(Len(options) - 1) :
         options[i].estimatedPrice <= options[i + 1].estimatedPrice

\* A REST simulation answered fewer than five options at differing prices.
C25_Witness ==
  /\ outbox.event = "POST book/simulate" /\ outbox.status = 200
  /\ Len(outbox.body.options) = 4
  /\ outbox.body.options[1].estimatedPrice < outbox.body.options[4].estimatedPrice
  /\ outbox.body.options[1].optionId # 1

\* C26: the flat file's bookings are never copied into the durable backend:
\* a step that changes the health flag leaves the contents of both backends
\* as they were, and the durable backend changes only by a save that reached
\* it and appended the booking of its own request.
C26_NoReconciliation ==
  [][/\ isConnected' # isConnected =>
          mongoBookings' = mongoBookings /\ bookingsFile' = bookingsFile
     /\ mongoBookings' # mongoBookings =>
          /\ storeCall'.op = "POST book" /\ storeCall'.status = 201
          /\ storeCall'.connected
          /\ mongoBookings' = Append(mongoBookings, storeCall'.arg)
          /\ bookingsFile' = bookingsFile]_vars

\* The durable backend holds a booking, the last booking was saved to the
\* flat file while the flag was down, and the flag is up again: the durable
\* backend still lacks that booking.
C26_Witness ==
  /\ isConnected /\ Len(mongoBookings) > 0
  /\ storeCall.op = "POST book" /\ storeCall.status = 201 /\ ~storeCall.connected
  /\ HasId(bookingsFile, storeCall.val.bookingId)
  /\ ~HasId(mongoBookings, storeCall.val.bookingId)

\* The text of the partial callbacks, joined.
RECURSIVE Joined(_)
Joined(cbs) ==
  IF cbs = <<>> THEN ""
  ELSE (IF Head(cbs).isComplete THEN "" ELSE Head(cbs).content) \o Joined(Tail(cbs))

\* C27: the terminal frame of a streaming chat request carries the whole
\* reply as its fullResponse: the chunks joined when a provider streams, the
\* reply of the web fallback when no provider is configured.
C27_FullResponseIsReply ==
  (outbox.event = "POST chat/stream" /\ outbox.status = 200) =>
    LET frames == outbox.body
        cbs == outbox.callbacks
    IN /\ Len(frames) > 0
       /\ frames[Len(frames)].type = "complete"
       /\ frames[Len(frames)].content =
            IF isDeepSeekAvailable \/ isOpenAIAvailable THEN Joined(cbs)
            ELSE cbs[Len(cbs)].content

\* C28: once the client's connection has closed during a streaming reply,
\* no further frame is written for the request and the conversation context
\* of its key stays as it was before the request: no exchange is stored.
C28_CloseCancelsStream ==
  [][\A p \in pending :
       (p.kind = "POST chat/stream" /\ ~p.open) =>
         /\ conversations'[p.key] = conversations[p.key]
         /\ appended' = appended
         /\ outbox'.event # "POST chat/stream callback"]_vars

\* C29: every provider call is given the system instruction first, then the
\* most recent turns of the history, at most 10 of them and in their stored
\* order, then the current user utterance last, whatever the length of the
\* history.
C29_MessageList ==
  aiCall.kind = "messages" =>
    LET ms == aiCall.messages
        h == aiCall.context
        n == IF Len(h) > 10 THEN 10 ELSE Len(h)
    IN /\ Len(ms) = n + 2
       /\ ms[1].role = "system"
       /\ ms[Len(ms)] = [role |-> "user", content |-> aiCall.message]
       /\ \A i \in 1..n : ms[1 + i] = h[Len(h) - n + i]

\* The streaming call was given a history longer than the window.
C29_Witness ==
  /\ aiCall.kind = "messages" /\ aiCall.call = "stream"
  /\ Len(aiCall.context) > 10
  /\ Len(aiCall.messages) = 12
  /\ aiCall.messages[2] = aiCall.context[Len(aiCall.context) - 9]

\* The events of a sequence of packets, in order.
EventsOf(emits) == [i \in 1..Len(emits) |-> emits[i].ev]

\* C30: when the handler of an accepted voice command finishes,
\* 'voice-response' is emitted first, then 'voice-booking-detected' exactly
\* when the transcript is classified booking and 'voice-emergency-detected'
\* exactly when it is classified emergency, and nothing else; no booking is
\* created or changed.
C30_AdvisoryAfterResponse ==
  [][\A p \in pending :
       (p.kind = "voice" /\ p \notin pending' /\ connStatus[p.conn] = "open") =>
         LET commandType == detectCommandType(p.transcript)
         IN /\ EventsOf(outbox'.emits) =
                 <<"voice-response">>
                   \o (IF commandType = "booking" THEN <<"voice-booking-detected">>
                       ELSE IF commandType = "emergency" THEN <<"voice-emergency-detected">>
                       ELSE <<>>)
            /\ outbox'.emits[1].body.commandType = commandType
            /\ mongoBookings' = mongoBookings /\ bookingsFile' = bookingsFile]_vars

\* A voice command classified booking was answered and advised while a
\* booking was stored.
C30_Witness ==
  /\ outbox.event = "voice-command resumed"
  /\ EventsOf(outbox.emits) = <<"voice-response", "voice-booking-detected">>
  /\ Len(bookingsFile) > 0

\* C19: a chat message accepted over the socket appends its (user, assistant)
\* exchange to the conversation store under (userId, conversationId): when
\* the handler of an accepted chat-message finishes, the history stored under
\* its key ends with a user message and an assistant message and is what a
\* later chat message on the key gives the provider.
C19_SocketChatStored ==
  [][\A p \in pending :
       (p.kind = "chat" /\ p \notin pending') =>
         LET h == conversations'[KeyOf(p.userId, p.conversationId)]
         IN /\ Len(h) >= 2
            /\ h[Len(h) - 1].role = "user"
            /\ h[Len(h)].role = "assistant"
            /\ \A q \in pending' :
                 (q.kind = "chat" /\ q.userId = p.userId
                    /\ q.conversationId = p.conversationId) => q.history = h]_vars

\* C17: every streamResponse makes zero or more partial callbacks, then
\* exactly one terminal callback, and none after it: when the stream ends,
\* when the provider fails at the start or part-way, and when no provider is
\* configured.
C17_OneTerminalCallback ==
  aiCall.kind = "stream" =>
    LET cbs == aiCall.out
    IN /\ Len(cbs) >= 1
       /\ cbs[Len(cbs)].isComplete
       /\ \A i \in 1..(Len(cbs) - 1) : ~cbs[i].isComplete

\* A stream that threw after two chunks with content: two partial callbacks
\* and the terminal one with the apology.
C17_Witness ==
  /\ aiCall.kind = "stream"
  /\ isDeepSeekAvailable \/ isOpenAIAvailable
  /\ aiCall.env.create = "ok" /\ aiCall.env.fail
  /\ Len(aiCall.out) = 3
  /\ aiCall.out[3] = Callback(StreamApology, TRUE)

(***************************************************************************)
(* Booking ownership and cancellation properties                           *)
(***************************************************************************)

\* C12: a PUT or DELETE of a stored booking by a userId that is not its
\* owner's is answered 403 and changes no backend (the file system and the
\* driver working).
C12_NonOwnerRejected ==
  (/\ storeCall.op \in {"PUT book", "DELETE book"}
   /\ storeCall.envOk
   /\ storeCall.owners # {}
   /\ storeCall.userId \notin storeCall.owners)
  => storeCall.status = 403 /\ ~storeCall.changed

\* C13: every DELETE of a stored booking by its owner, the first and a
\* repeated one, answers with the booking in status 'cancelled', holding one
\* cancellationReason and one cancelledAt.
C13_CancelIdempotent ==
  (/\ storeCall.op = "DELETE book"
   /\ storeCall.envOk
   /\ storeCall.owners = {storeCall.userId})
  => /\ storeCall.status = 200
     /\ storeCall.booking.status = "cancelled"
     /\ storeCall.booking.cancellationReason # ""
     /\ storeCall.booking.cancelledAt # NoStamp

\* C14: an update leaves the bookingId and the userId of every stored booking
\* as they were, whatever the payload contains.
C14_IdentityImmutable ==
  storeCall.op = "PUT book" =>
    Identities(mongoBookings, bookingsFile) = storeCall.identities

\* A booking that is cancelled stays where it is, cancelled, with its reason
\* and its time.
StaysCancelled(bookings, after) ==
  \A i \in 1..Len(bookings) :
    bookings[i].status = "cancelled" =>
      /\ i <= Len(after)
      /\ after[i].bookingId = bookings[i].bookingId
      /\ after[i].status = "cancelled"
      /\ after[i].cancellationReason = bookings[i].cancellationReason
      /\ after[i].cancelledAt = bookings[i].cancelledAt

\* C15: once a booking is cancelled, no later operation removes it or changes
\* its status, its cancellation reason or its cancellation time.
C15_CancelledIsTerminal ==
  [][/\ StaysCancelled(mongoBookings, mongoBookings')
     /\ StaysCancelled(bookingsFile, bookingsFile')]_vars

(***************************************************************************)
(* Booking model properties                                                *)
(***************************************************************************)

\* The fields the booking invariant makes mandatory for a type.
MandatoryFields(type) ==
  {"from", "to", "passengers"}
  \cup (IF type \in {"bus", "train"} THEN {"date", "time"} ELSE {})
  \cup (IF type = "flight" THEN {"departureDate"} ELSE {})
  \cup (IF type \in {"train", "flight"} THEN {"class"} ELSE {})
  \cup (IF type = "bus" THEN {"seatType"} ELSE {})

FieldAbsent(d, f) == IF f = "passengers" THEN d[f] = <<>> ELSE d[f] = ""

\* C16: validateBooking rejects a request exactly when its type is unknown or
\* a field of its type's mandatory set (bus and train: date and time; flight:
\* departureDate; train and flight: class; bus: seatType) is absent.
C16_RequiredFieldsDecide ==
  storeCall.op = "validateBooking" =>
    (~storeCall.ok <=>
       \/ storeCall.arg.type \notin {"bus", "train", "flight"}
       \/ \E f \in MandatoryFields(storeCall.arg.type) : FieldAbsent(storeCall.arg, f))

(***************************************************************************)
(* Conversation store properties                                           *)
(***************************************************************************)

StoreOf(s) == IF s = "chat" THEN conversations ELSE voiceSessions
CapOf(s) == IF s = "chat" THEN ChatCap ELSE VoiceCap

ToCaller(o) == SelectSeq(o.emits, LAMBDA pk : pk.to = o.conn)

\* C31: an authorized chat message gets 'chat-processing' while its provider
\* call is still to be made, and exactly one of 'chat-response' and
\* 'chat-error' once the call is back; an unauthorized one gets 'chat-error'
\* only, and no provider call is made for it.
C31_ProcessingThenAnswer ==
  /\ outbox.event = "chat-message" =>
       IF outbox.auth = "ok"
       THEN /\ EventsOf(outbox.emits) = <<"chat-processing">>
            /\ \E p \in pending : p.kind = "chat" /\ p.conn = outbox.conn
       ELSE /\ EventsOf(outbox.emits) = <<"chat-error">>
            /\ outbox.emits[1].to = outbox.conn
  /\ (outbox.event = "chat-message resumed" /\ connStatus[outbox.conn] = "open") =>
       /\ Len(ToCaller(outbox)) = 1
       /\ ToCaller(outbox)[1].ev \in {"chat-response", "chat-error"}

\* A chat message was answered to its open connection and mirrored.
C31_Witness ==
  /\ outbox.event = "chat-message resumed" /\ connStatus[outbox.conn] = "open"
  /\ EventsOf(outbox.emits) = <<"chat-response", "chat-sync">>

\* The open connections that are in the room of user u, but for c.
Siblings(c, u) == {d \in Conns \ {c} : u \in rooms[d]}

\* C32: 'booking-confirmed' goes to the caller and 'booking-notification' to
\* the user's other connections only when saveBooking returned the booking,
\* which is then stored; when validation or the save fails the caller gets
\* 'booking-error', no connection is notified and storage is as before.
C32_ConfirmAfterSave ==
  [][/\ \A p \in pending :
          (p.kind = "booking-request" /\ p \notin pending') =>
            LET heard == EventsOf(ToCaller(outbox'))
            IN IF storeCall'.val # Null
               THEN /\ storeCall'.val = p.booking
                    /\ p.booking \in Held(mongoBookings', bookingsFile')
                    /\ connStatus[p.conn] = "open" => heard = <<"booking-confirmed">>
                    /\ SentTo(outbox', "booking-notification") = Siblings(p.conn, p.userId)
               ELSE /\ connStatus[p.conn] = "open" => heard = <<"booking-error">>
                    /\ SentTo(outbox', "booking-notification") = {}
                    /\ mongoBookings' = mongoBookings /\ bookingsFile' = bookingsFile
     /\ (outbox'.event = "booking-request" /\ outbox = NoEvent /\ outbox'.auth = "ok") =>
          LET heard == EventsOf(outbox'.emits)
          IN /\ heard \in {<<"booking-processing">>, <<"booking-processing", "booking-error">>}
             /\ IF heard = <<"booking-processing">>
                THEN \E p \in pending' : p.kind = "booking-request" /\ p.conn = outbox'.conn
                ELSE pending' = pending
             /\ mongoBookings' = mongoBookings /\ bookingsFile' = bookingsFile]_vars

\* A saved booking was confirmed to its caller and notified to the other
\* connection of the user.
C32_Witness ==
  /\ outbox.event = "booking-request resumed"
  /\ EventsOf(outbox.emits) = <<"booking-confirmed", "booking-notification">>
  /\ storeCall.op = "booking-request" /\ storeCall.val # Null

\* C33: every stored booking has a known type and every field that its type
\* makes mandatory, whichever operation stored it.
C33_StoredBookingsValid ==
  \A b \in Held(mongoBookings, bookingsFile) :
    /\ b.type \in {"bus", "train", "flight"}
    /\ \A f \in MandatoryFields(b.type) : ~FieldAbsent(b, f)

\* C34: in flat-file mode a save only appends: whatever the file read and the
\* file write did, every booking of the file is still there, unchanged and
\* in its place, and the call returned its booking or null.
C34_FlatFileAppendOnly ==
  [][(~isConnected /\ storeCall'.op \in {"POST book", "booking-request", "booking-confirmation"}
        /\ <<bookingsFile, storeCall>>' # <<bookingsFile, storeCall>>) =>
       /\ Len(bookingsFile') >= Len(bookingsFile)
       /\ \A i \in 1..Len(bookingsFile) : bookingsFile'[i] = bookingsFile[i]
       /\ storeCall'.val \in {storeCall'.arg, Null}]_vars

\* C35: the 'chat-sync' of a message accepted for user U reaches no
\* connection whose registry record names another user, whatever
\* registrations and disconnections came before.
C35_FanOutStaysWithUser ==
  [][\A p \in pending :
       (p.kind = "chat" /\ p \notin pending') =>
         \A d \in SentTo(outbox', "chat-sync") :
           activeUsers[d] = Null \/ activeUsers[d].userId = p.userId]_vars

\* C36: two (userId, id) pairs with the same composed key are the same pair,
\* and the personal room of one user is never the user+session room of
\* another.
C36_KeysInjective ==
  outbox.event = "key composition" =>
    /\ outbox.keyA = outbox.keyB => outbox.a = outbox.b
    /\ outbox.a[1] # outbox.b[1] => outbox.a[1] # outbox.keyB

\* C37: every exchange pushed under a key is in the history stored under the
\* key (below the cap), also when the requests that pushed them overlapped.
C37_OverlapKeepsBoth ==
  \A k \in ContextKeys :
    LET all == appended["voice"][k]
        h == voiceSessions[k]
    IN Len(all) <= VoiceCap => \A i \in 1..Len(all) : \E j \in 1..Len(h) : h[j] = all[i]

\* C38: in flat-file mode the booking of every save that returned success is
\* in the bookings file, also when the saves overlapped.
C38_OverlappingSavesKept ==
  ~isConnected => \A a \in acked : HasId(bookingsFile, a[1])

\* The place of a tier in the chain.
TierRank(tier) == CASE tier = "deepseek" -> 1 [] tier = "openai" -> 2 [] tier = "web" -> 3

\* C39: the tiers that one processMessage call invoked come in the order
\* primary, secondary, web, each at most once.
C39_TiersInOrderOnce ==
  aiCall.kind = "call" =>
    LET calls == aiCall.out.calls
    IN \A i, j \in 1..Len(calls) : i < j => TierRank(calls[i]) < TierRank(calls[j])

\* C40: the commandType that the socket's 'voice-response' carries for a
\* transcript is the one that POST voice/process returns for it.
C40_OneClassifier ==
  [][\A p \in pending :
       (p.kind = "voice" /\ p \notin pending') =>
         \A i \in 1..Len(outbox'.emits) :
           outbox'.emits[i].ev = "voice-response" =>
             outbox'.emits[i].body.commandType = routeDetectCommandType(p.transcript)]_vars

====
